---- MODULE Spec2Model ----
(***************************************************************************)
(* Model of the tomplate macro crates: the simple rendering engine, the    *)
(* registry produced by tomplate-build, the direct invocation path         *)
(* (process_template), the composition-block path (process_block), the     *)
(* tomplate entry point with its block parser, the eager token rewriter    *)
(* (process_eager, evaluate_concat) and the build script (Builder::build). *)
(*                                                                         *)
(* A Rust String is a sequence of one-character strings.  A               *)
(* Result<String, _> is a record [ok, val, err, arg]: Ok(s) carries s in   *)
(* val, Err carries the kind of error in err and its payload in arg.       *)
(* The iteration order of a std HashMap is not fixed by the program, so    *)
(* every rendering takes the visiting order of the keys as an input and    *)
(* the callers range over all of them.                                     *)
(***************************************************************************)
EXTENDS Integers, Sequences, FiniteSets, TLC

VARIABLES eng, build, registry, blk, pc, idx, locals, exports, result, first, run, sel, direct, eager,
          entry, builder, artifact, loop

vars == <<eng, build, registry, blk, pc, idx, locals, exports, result, first, run, sel, direct, eager,
          entry, builder, artifact, loop>>

\* ---------------------------------------------------------------- bounds
MaxPatLen == 3
MaxParams == 2
MaxStmts == 3
MaxTokens == 4
MaxElems == 3
MaxFiles == 2
MaxBuilds == 2

\* ------------------------------------------------------------ characters
LB == "{"
RB == "}"
QUOTE == "\""
BSL == "\\"
NL == "\n"

Ok(s) == [ok |-> TRUE, val |-> s, err |-> "", arg |-> <<>>]
Err(kind, a) == [ok |-> FALSE, val |-> <<>>, err |-> kind, arg |-> a]

\* All the orders in which the elements of the finite set S can be visited.
Perms(S) == {p \in [1..Cardinality(S) -> S] : \A i, j \in 1..Cardinality(S) : p[i] = p[j] => i = j}

IsPrefixAt(s, pat, i) == /\ i + Len(pat) - 1 <= Len(s)
                         /\ \A j \in 1..Len(pat) : s[i + j - 1] = pat[j]

RECURSIVE ReplaceFrom(_, _, _, _)
ReplaceFrom(s, pat, val, i) ==
  IF i > Len(s) THEN <<>>
  ELSE IF IsPrefixAt(s, pat, i) THEN val \o ReplaceFrom(s, pat, val, i + Len(pat))
  ELSE <<s[i]>> \o ReplaceFrom(s, pat, val, i + 1)

RECURSIVE FirstMatch(_, _, _)
FirstMatch(s, pat, i) ==
  IF i > Len(s) THEN 0 ELSE IF IsPrefixAt(s, pat, i) THEN i ELSE FirstMatch(s, pat, i + 1)

\* Mutant: only the first match is replaced (str::replacen(pat, val, 1)).
Replace_FirstOnly(s, pat, val) ==
  LET i == FirstMatch(s, pat, 1) IN
  IF i = 0 THEN s
  ELSE SubSeq(s, 1, i - 1) \o val \o SubSeq(s, i + Len(pat), Len(s))

\* str::replace: every non-overlapping match of pat, left to right.
Replace(s, pat, val) == ReplaceFrom(s, pat, val, 1)

Contains(s, c) == \E i \in 1..Len(s) : s[i] = c

\* format!("{{{}}}", key)
Placeholder(key) == <<LB>> \o key \o <<RB>>

RECURSIVE ReplaceAll(_, _, _)
ReplaceAll(res, params, ord) ==
  IF ord = <<>> THEN res
  ELSE ReplaceAll(Replace(res, Placeholder(Head(ord)), params[Head(ord)]), params, Tail(ord))

\* Position of the first RB at or after i, or 0 when there is none.
RECURSIVE FindClose(_, _)
FindClose(s, i) == IF i > Len(s) THEN 0 ELSE IF s[i] = RB THEN i ELSE FindClose(s, i + 1)

RECURSIVE ScanFrom(_, _, _)
ScanFrom(s, keys, i) ==
  IF i > Len(s) THEN <<>>
  ELSE IF s[i] # LB THEN ScanFrom(s, keys, i + 1)
  ELSE LET c == FindClose(s, i + 1) IN
       IF c = 0 THEN <<>>
       ELSE LET name == SubSeq(s, i + 1, c - 1) IN
            (IF name # <<>> /\ name \notin keys THEN <<name>> ELSE <<>>)
              \o ScanFrom(s, keys, c + 1)

\* Mutant: the names that are keys of params are reported too.
Unsubstituted_KeysToo(s, keys) == ScanFrom(s, {}, 1)

\* The scan for unsubstituted variables.
Unsubstituted(s, keys) == ScanFrom(s, keys, 1)

\* engines::simple::process, the keys of params visited in the order ord.
SimpleProcess(template, params, ord) ==
  LET res == ReplaceAll(template, params, ord) IN
  IF Contains(res, LB) /\ Contains(res, RB) /\ Unsubstituted(res, DOMAIN params) # <<>>
  THEN Err("Unsubstituted", Unsubstituted(res, DOMAIN params))
  ELSE Ok(res)

\* The optional engines compiled into the macro crate (cargo features).
EnabledEngines == {}

\* Mutant: a name that is not recognised falls back to the simple engine.
EngineFromStr_Fallback(s) == IF s \in EnabledEngines THEN Ok(s) ELSE Ok("Simple")

\* Engine::from_str
EngineFromStr(s) ==
  IF s \in {"simple", ""} THEN Ok("Simple")
  ELSE IF s \in EnabledEngines THEN Ok(s)
  ELSE Err("UnknownEngine", s)

\* engines::process
EnginesProcess(engine, template, params, ord) ==
  LET e == EngineFromStr(engine) IN
  IF ~e.ok THEN e
  ELSE SimpleProcess(template, params, ord)

\* ---------------------------------------------------------------- tokens
\* A proc_macro2 TokenTree: t is the kind (Ident, Punct, Str, Int, Float, Char, Group),
\* d the delimiter of a Group, v the name, character, literal value or inner
\* stream.
Ident(n) == [t |-> "Ident", d |-> "", v |-> n]
Punct(c) == [t |-> "Punct", d |-> "", v |-> c]
LitStr(s) == [t |-> "Str", d |-> "", v |-> s]
LitInt(s) == [t |-> "Int", d |-> "", v |-> s]
LitFloat(s) == [t |-> "Float", d |-> "", v |-> s]
LitChar(s) == [t |-> "Char", d |-> "", v |-> s]
Group(d, stream) == [t |-> "Group", d |-> d, v |-> stream]

Comma == Punct(",")
Bang == Punct("!")
Eq == Punct("=")
Colon == Punct(":")

\* Ident::to_string for the one-character identifiers used as names.
IdentToString(n) == <<n>>

\* The stream cut at its top-level commas, as Punctuated<Expr, Token![,]> sees it.
RECURSIVE SplitCommas(_)
SplitCommas(stream) ==
  IF stream = <<>> THEN << <<>> >>
  ELSE LET rest == SplitCommas(Tail(stream)) IN
       IF Head(stream) = Comma THEN << <<>> >> \o rest
       ELSE << <<Head(stream)>> \o Head(rest) >> \o Tail(rest)

\* The shape of the syn::Expr a comma-free token sequence parses to; "Other"
\* stands for every other expression and for what is not an expression.  A
\* path is kept by the identifier of its first segment; its kind tells
\* whether it has one segment (`a`, `::a`) or more (`a::b`).
RECURSIVE ExprShape(_)
ExprShape(seg) ==
  IF Len(seg) = 1 /\ seg[1].t \in {"Str", "Int", "Float", "Char"}
    THEN [e |-> "Lit", kind |-> seg[1].t, v |-> seg[1].v, right |-> <<>>]
  ELSE IF Len(seg) = 1 /\ seg[1].t = "Ident" /\ seg[1].v \in {"true", "false"}
    THEN [e |-> "Lit", kind |-> "Bool", v |-> seg[1].v, right |-> <<>>]
  ELSE IF Len(seg) = 1 /\ seg[1].t = "Ident"
    THEN [e |-> "Path", kind |-> "single", v |-> seg[1].v, right |-> <<>>]
  ELSE IF Len(seg) = 3 /\ seg[1] = Colon /\ seg[2] = Colon /\ seg[3].t = "Ident"
    THEN [e |-> "Path", kind |-> "single", v |-> seg[3].v, right |-> <<>>]
  ELSE IF Len(seg) = 4 /\ seg[1].t = "Ident" /\ seg[2] = Colon /\ seg[3] = Colon
            /\ seg[4].t = "Ident"
    THEN [e |-> "Path", kind |-> "multi", v |-> seg[1].v, right |-> <<>>]
  ELSE IF Len(seg) = 3 /\ seg[1].t = "Ident" /\ seg[2] = Bang /\ seg[3].t = "Group"
    THEN [e |-> "Macro", kind |-> seg[1].v, v |-> seg[3].v, right |-> <<>>]
  ELSE IF Len(seg) >= 3 /\ seg[1].t = "Ident" /\ seg[2] = Eq
    THEN [e |-> "Assign", kind |-> "", v |-> seg[1].v,
          right |-> ExprShape(SubSeq(seg, 3, Len(seg)))]
  ELSE [e |-> "Other", kind |-> "", v |-> <<>>, right |-> <<>>]

\* Lit::Str -> value(), Lit::Int -> to_string(), Lit::Bool -> value.to_string()
LitText(x) == IF x.kind = "Bool" THEN (IF x.v = "true" THEN <<"t", "r", "u", "e">>
                                       ELSE <<"f", "a", "l", "s", "e">>)
              ELSE x.v

Literal(s) == [tag |-> "Literal", s |-> s, call |-> <<>>]
Variable(n) == [tag |-> "Variable", s |-> n, call |-> <<>>]
Nested(c) == [tag |-> "Nested", s |-> <<>>, call |-> c]
Macro(tokens) == [tag |-> "Macro", s |-> <<>>, call |-> tokens]
Param(k, v) == [key |-> k, val |-> v]

ParseOk(src, ps) == [ok |-> TRUE, source |-> src, params |-> ps, err |-> ""]
ParseErr(msg) == [ok |-> FALSE, source |-> <<>>, params |-> <<>>, err |-> msg]

\* The arguments after the first comma: parse_terminated allows one trailing
\* comma, hence one empty last segment.
ArgSegments(segs) ==
  LET rest == Tail(segs) IN
  IF rest # <<>> /\ rest[Len(rest)] = <<>> THEN SubSeq(rest, 1, Len(rest) - 1) ELSE rest

\* The value of one `key = value` argument of the direct form.
DirectParamValue(x) ==
  IF x.e = "Lit" THEN
         (IF x.kind \in {"Str", "Int", "Float", "Bool"} THEN Ok(Literal(LitText(x)))
          ELSE Err("Parse", "UnsupportedLiteral"))
  ELSE IF x.e = "Macro" THEN
         (IF x.kind = "tomplate" THEN Ok(Macro(x.v)) ELSE Err("Parse", "OnlyTomplate"))
  ELSE Err("Parse", "ExpectedLiteralOrMacro")

RECURSIVE DirectParams(_)
DirectParams(args) ==
  IF args = <<>> THEN Ok(<<>>)
  ELSE LET front == DirectParams(SubSeq(args, 1, Len(args) - 1))
           x == ExprShape(args[Len(args)])
       IN IF ~front.ok THEN front
          ELSE IF x.e # "Assign" THEN Err("Parse", "ExpectedKeyValue")
          ELSE LET v == DirectParamValue(x.right) IN
               IF ~v.ok THEN v
               ELSE Ok(Append(front.val, Param(IdentToString(x.v), v.val)))

\* impl Parse for TomplateInput, run to the end of the stream by syn::parse2.
ParseTomplateInput(stream) ==
  LET segs == SplitCommas(stream)
      head == ExprShape(segs[1])
  IN IF ~(head.e = "Lit" /\ head.kind = "Str") THEN ParseErr("ExpectedStringLiteral")
     ELSE LET ps == DirectParams(ArgSegments(segs)) IN
          IF ~ps.ok THEN ParseErr(ps.arg) ELSE ParseOk(head.v, ps.val)

RECURSIVE ParseTemplateArgs(_)
RECURSIVE BlockParams(_)

\* parse_param_value
ParseParamValue(x) ==
  IF x.e = "Lit" THEN
         (IF x.kind \in {"Str", "Int", "Float", "Bool"} THEN Ok(Literal(LitText(x)))
          ELSE Err("Parse", "UnsupportedLiteral"))
  ELSE IF x.e = "Path" /\ x.kind = "single" THEN Ok(Variable(IdentToString(x.v)))
  ELSE IF x.e = "Macro" /\ x.kind = "tomplate" THEN
         LET nested == ParseTemplateArgs(x.v) IN
         IF ~nested.ok THEN Err("Parse", nested.err)
         ELSE Ok(Nested([source |-> nested.source, params |-> nested.params]))
  ELSE Err("Parse", "InvalidParameterValue")

BlockParams(args) ==
  IF args = <<>> THEN Ok(<<>>)
  ELSE LET front == BlockParams(SubSeq(args, 1, Len(args) - 1))
           x == ExprShape(args[Len(args)])
       IN IF ~front.ok THEN front
          ELSE IF x.e # "Assign" THEN Err("Parse", "ExpectedKeyValue")
          ELSE LET v == ParseParamValue(x.right) IN
               IF ~v.ok THEN v
               ELSE Ok(Append(front.val, Param(IdentToString(x.v), v.val)))

\* parse_template_args
ParseTemplateArgs(stream) ==
  LET segs == SplitCommas(stream)
      head == ExprShape(segs[1])
  IN IF ~(head.e = "Lit" /\ head.kind = "Str") THEN ParseErr("SourceMustBeStringLiteral")
     ELSE LET ps == BlockParams(ArgSegments(segs)) IN
          IF ~ps.ok THEN ParseErr(ps.arg) ELSE ParseOk(head.v, ps.val)

\* --------------------------------------------------- CompositionBlock::parse
Semi == Punct(";")
Hash == Punct("#")

\* A statement of a composition block as the parser builds it.
Let(name, value) == [kind |-> "Let", attrs |-> <<>>, name |-> name, value |-> value]
Const(attrs, name, value) == [kind |-> "Const", attrs |-> attrs, name |-> name, value |-> value]

\* Attribute::parse_outer from position i: every `# [ ... ]` in a row; an
\* attribute is kept by the name it starts with.
RECURSIVE ParseOuter(_, _)
ParseOuter(stream, i) ==
  IF i <= Len(stream) /\ stream[i] = Hash
  THEN IF i + 1 <= Len(stream) /\ stream[i + 1].t = "Group" /\ stream[i + 1].d = "Bracket"
            /\ stream[i + 1].v # <<>> /\ stream[i + 1].v[1].t = "Ident"
       THEN LET rest == ParseOuter(stream, i + 2) IN
            [rest EXCEPT !.attrs = <<stream[i + 1].v[1].v>> \o rest.attrs]
       ELSE [ok |-> FALSE, next |-> i, attrs |-> <<>>]
  ELSE [ok |-> TRUE, next |-> i, attrs |-> <<>>]

\* parse_let_statement and parse_const_statement after their keyword at
\* position i: NAME = tomplate ! ( args ) ;
ParseBinding(stream, i) ==
  IF ~(i + 6 <= Len(stream) /\ stream[i + 1].t = "Ident" /\ stream[i + 2] = Eq)
    THEN [ok |-> FALSE, err |-> "ExpectedNameAndEq", name |-> "", value |-> <<>>]
  ELSE IF ~(stream[i + 3].t = "Ident" /\ stream[i + 4] = Bang /\ stream[i + 5].t = "Group")
    THEN [ok |-> FALSE, err |-> "ExpectedMacro", name |-> "", value |-> <<>>]
  ELSE IF stream[i + 3].v # "tomplate"
    THEN [ok |-> FALSE, err |-> "ExpectedTomplateCall", name |-> "", value |-> <<>>]
  ELSE LET call == ParseTemplateArgs(stream[i + 5].v) IN
       IF ~call.ok THEN [ok |-> FALSE, err |-> call.err, name |-> "", value |-> <<>>]
       ELSE IF stream[i + 6] # Semi
         THEN [ok |-> FALSE, err |-> "ExpectedSemi", name |-> "", value |-> <<>>]
       ELSE [ok |-> TRUE, err |-> "", name |-> stream[i + 1].v,
             value |-> [source |-> call.source, params |-> call.params]]

\* The loop of CompositionBlock::parse from position i: the statements, or
\* the first error.  At the end of the input the loop is not entered.
RECURSIVE ParseStatements(_, _)
ParseStatements(stream, i) ==
  IF i > Len(stream) THEN Ok(<<>>)
  ELSE LET a == ParseOuter(stream, i)
           j == a.next
           kw == IF j <= Len(stream) THEN stream[j] ELSE Punct("")
       IN IF ~a.ok THEN Err("Parse", "ExpectedAttribute")
          ELSE IF kw = Ident("let") /\ a.attrs # <<>> THEN Err("Parse", "AttributesOnLet")
          ELSE IF kw \notin {Ident("let"), Ident("const")} THEN Err("Parse", "ExpectedLetOrConst")
          ELSE LET b == ParseBinding(stream, j) IN
               IF ~b.ok THEN Err("Parse", b.err)
               ELSE LET st == IF kw = Ident("let") THEN Let(b.name, b.value)
                              ELSE Const(a.attrs, b.name, b.value)
                        k == IF j + 7 <= Len(stream) /\ stream[j + 7] = Comma THEN j + 8 ELSE j + 7
                        rest == ParseStatements(stream, k)
                    IN IF ~rest.ok THEN rest ELSE Ok(<<st>> \o rest.val)

\* impl Parse for CompositionBlock, run to the end of the stream by syn::parse.
ParseCompositionBlock(stream) == ParseStatements(stream, 1)

\* -------------------------------------------------------------- registry
\* Option<T>: None is <<>>, Some(x) is <<x>>.
None == <<>>
Some(x) == <<x>>

\* types::Template without its unused metadata.
Template(pattern, engine) == [template |-> pattern, engine |-> engine]

\* types::Engine::as_str / Display, for the variants of the build crate.
EngineAsStr(e) == IF e = "Simple" THEN "simple" ELSE "handlebars"

\* Mutant: the default engine also replaces an explicit engine.
ApplyDefault_Override(templates, default_engine) ==
  [n \in DOMAIN templates |->
     IF default_engine # None
     THEN Template(templates[n].template, Some(EngineAsStr(default_engine[1])))
     ELSE templates[n]]

\* amalgamate_templates: "Apply default engine if not specified".
ApplyDefault(templates, default_engine) ==
  [n \in DOMAIN templates |->
     IF default_engine # None /\ templates[n].engine = None
     THEN Template(templates[n].template, Some(EngineAsStr(default_engine[1])))
     ELSE templates[n]]

Merge(all, templates) ==
  [n \in DOMAIN all \cup DOMAIN templates |-> IF n \in DOMAIN all THEN all[n] ELSE templates[n]]

\* Mutant: a name met a second time replaces the first definition.
RECURSIVE AmalgamateFrom_LastWins(_, _, _)
AmalgamateFrom_LastWins(files, default_engine, all) ==
  IF files = <<>> THEN {Ok(all)}
  ELSE AmalgamateFrom_LastWins(Tail(files), default_engine,
                               Merge(ApplyDefault(Head(files), default_engine), all))

\* amalgamate_templates before serialisation: the merged map, or a
\* DuplicateTemplate error naming one of the names met twice (the one the
\* iteration over the file's HashMap meets first).
RECURSIVE AmalgamateFrom(_, _, _)
AmalgamateFrom(files, default_engine, all) ==
  IF files = <<>> THEN {Ok(all)}
  ELSE LET templates == ApplyDefault(Head(files), default_engine)
           dup == DOMAIN templates \cap DOMAIN all
       IN IF dup # {} THEN {Err("DuplicateTemplate", n) : n \in dup}
          ELSE AmalgamateFrom(Tail(files), default_engine, Merge(all, templates))

\* toml::to_string_pretty of the map: one table per name, the engine key
\* left out when it is None.  The text is modelled as its set of
\* <<table, key, value>> entries; the empty map gives the empty text.
TomlSerialize(all) ==
  {<<n, "template", all[n].template>> : n \in DOMAIN all}
    \cup {<<n, "engine", all[n].engine[1]>> : n \in {m \in DOMAIN all : all[m].engine # None}}

AmalgamateTemplates(files, default_engine) ==
  {IF r.ok THEN Ok(TomlSerialize(r.val)) ELSE r : r \in AmalgamateFrom(files, default_engine, <<>>)}

\* Mutant: a build that discovers no template file is an error.
BuildArtifacts_FailEmpty(files, default_engine) ==
  IF files = <<>> THEN {Err("NoTemplates", <<>>)} ELSE AmalgamateTemplates(files, default_engine)

\* Builder::build: the content of tomplate_amalgamated.toml after the build.
BuildArtifacts(files, default_engine) ==
  IF files = <<>> THEN {Ok({})} ELSE AmalgamateTemplates(files, default_engine)

\* templates::TEMPLATES: the artifact parsed back into the registry.
LoadTemplates(toml_content) ==
  IF toml_content = {} THEN <<>>
  ELSE [n \in {e[1] : e \in toml_content} |->
          Template((CHOOSE e \in toml_content : e[1] = n /\ e[2] = "template")[3],
                   IF \E e \in toml_content : e[1] = n /\ e[2] = "engine"
                   THEN Some((CHOOSE e \in toml_content : e[1] = n /\ e[2] = "engine")[3])
                   ELSE None)]

\* templates::TEMPLATES: read_to_string(..).unwrap_or_else(|_| String::new())
\* on the artifact of OUT_DIR, None when the file is absent.
ReadArtifact(file) == IF file = None THEN {} ELSE file[1]

\* ------------------------------------------------------------- resolution
\* Option::as_deref().unwrap_or("simple")
UnwrapOrSimple(engine) == IF engine = None THEN "simple" ELSE engine[1]

Selection(t, e) == [template |-> t, engine |-> e]

\* Mutant: the source string is always taken as an inline pattern.
SelectDirect_AlwaysInline(reg, name) == Selection(name, "simple")

\* process_template: "Try to find the template in registry, or use as inline".
SelectDirect(reg, name) ==
  IF name \in DOMAIN reg
  THEN Selection(reg[name].template, UnwrapOrSimple(reg[name].engine))
  ELSE Selection(name, "simple")

\* Mutant: the engine recorded in the registry is ignored.
SelectBlock_IgnoreEngine(reg, name) ==
  IF name \in DOMAIN reg THEN Selection(reg[name].template, "simple")
  ELSE Selection(name, "simple")

\* process_template_call: registry lookup of TemplateSource::Name.
SelectBlock(reg, name) ==
  IF name \in DOMAIN reg
  THEN Selection(reg[name].template, UnwrapOrSimple(reg[name].engine))
  ELSE Selection(name, "simple")

\* Mutant: a key that is already in the map keeps its value.
Insert_KeepFirst(m, k, v) == [x \in DOMAIN m \cup {k} |-> IF x \in DOMAIN m THEN m[x] ELSE v]

\* HashMap::insert
Insert(m, k, v) == [x \in DOMAIN m \cup {k} |-> IF x = k THEN v ELSE m[x]]

\* The engine run on a resolved map, for every visiting order of its keys.
RenderOutcomes(s, m) == {EnginesProcess(s.engine, s.template, m, ord) : ord \in Perms(DOMAIN m)}

\* The escaping of Literal::string as printed by TokenStream::to_string.
EscapeChar(c) == IF c = QUOTE THEN <<BSL, QUOTE>>
                 ELSE IF c = BSL THEN <<BSL, BSL>>
                 ELSE IF c = NL THEN <<BSL, "n">>
                 ELSE <<c>>

RECURSIVE Escape(_)
Escape(s) == IF s = <<>> THEN <<>> ELSE EscapeChar(Head(s)) \o Escape(Tail(s))

\* quote! { #processed }.to_string(): the string literal as source text.
LiteralToString(s) == <<QUOTE>> \o Escape(s) \o <<QUOTE>>

RECURSIVE TrimStart(_, _)
TrimStart(s, c) == IF s # <<>> /\ Head(s) = c THEN TrimStart(Tail(s), c) ELSE s
RECURSIVE TrimEnd(_, _)
TrimEnd(s, c) == IF s # <<>> /\ s[Len(s)] = c THEN TrimEnd(SubSeq(s, 1, Len(s) - 1), c) ELSE s

\* str::trim_matches
TrimMatches(s, c) == TrimEnd(TrimStart(s, c), c)

RECURSIVE ProcessTemplate(_, _)
RECURSIVE DirectResolved(_, _)

\* process_template, the ParamValue::Macro arm: parse the nested tokens,
\* expand them, print the resulting literal and trim its quotes.
ExpandMacro(reg, tokens) ==
  LET nested_input == ParseTomplateInput(tokens) IN
  IF ~nested_input.ok THEN {Err("Parse", nested_input.err)}
  ELSE {IF r.ok THEN Ok(TrimMatches(LiteralToString(r.val), QUOTE)) ELSE r
          : r \in ProcessTemplate(reg, nested_input)}

\* The parameter loop of process_template: the resolved maps, or the first error.
DirectResolved(reg, ps) ==
  IF ps = <<>> THEN {Ok(<<>>)}
  ELSE LET p == ps[Len(ps)]
           vals == IF p.val.tag = "Literal" THEN {Ok(p.val.s)} ELSE ExpandMacro(reg, p.val.call)
       IN UNION {IF ~f.ok THEN {f}
                 ELSE {IF v.ok THEN Ok(Insert(f.val, p.key, v.val)) ELSE v : v \in vals}
                   : f \in DirectResolved(reg, SubSeq(ps, 1, Len(ps) - 1))}

\* process_template: every result the call can have; Ok carries the value of
\* the string literal it emits.
ProcessTemplate(reg, input) ==
  UNION {IF ~m.ok THEN {m} ELSE RenderOutcomes(SelectDirect(reg, input.source), m.val)
           : m \in DirectResolved(reg, input.params)}

RECURSIVE ProcessTemplateCall(_, _, _)
RECURSIVE BlockResolved(_, _, _)

\* Scope::get_local
GetLocal(scope_locals, name) ==
  IF name \in DOMAIN scope_locals THEN Some(scope_locals[name]) ELSE None

\* process_template_call: the value one parameter resolves to.
ResolveValue(reg, v, scope_locals) ==
  IF v.tag = "Literal" THEN {Ok(v.s)}
  ELSE IF v.tag = "Variable"
       THEN (IF GetLocal(scope_locals, v.s) = None THEN {Err("UndefinedVariable", v.s)}
             ELSE {Ok(GetLocal(scope_locals, v.s)[1])})
  ELSE ProcessTemplateCall(reg, v.call, scope_locals)

\* The parameter loop of process_template_call.
BlockResolved(reg, ps, scope_locals) ==
  IF ps = <<>> THEN {Ok(<<>>)}
  ELSE LET p == ps[Len(ps)] IN
       UNION {IF ~f.ok THEN {f}
              ELSE {IF v.ok THEN Ok(Insert(f.val, p.key, v.val)) ELSE v
                      : v \in ResolveValue(reg, p.val, scope_locals)}
                : f \in BlockResolved(reg, SubSeq(ps, 1, Len(ps) - 1), scope_locals)}

\* process_template_call: every result the call can have.
ProcessTemplateCall(reg, call, scope_locals) ==
  UNION {IF ~m.ok THEN {m} ELSE RenderOutcomes(SelectBlock(reg, call.source), m.val)
           : m \in BlockResolved(reg, call.params, scope_locals)}

\* ------------------------------------------------------ composition block

\* validate_references: the first undefined variable of the call, in
\* parameter order, nested calls included.
RECURSIVE ValidateReferences(_, _)
RECURSIVE ValidateParams(_, _)
\* Mutant: the references of nested calls are not validated.
ValidateParams_Shallow(ps, defined) ==
  IF ps = <<>> THEN Ok(<<>>)
  ELSE LET v == Head(ps).val
           r == IF v.tag = "Variable"
                THEN (IF v.s \notin defined THEN Err("UndefinedVariable", v.s) ELSE Ok(<<>>))
                ELSE Ok(<<>>)
       IN IF ~r.ok THEN r ELSE ValidateParams(Tail(ps), defined)

\* The loop of validate_references over the parameters of a call.
ValidateParams(ps, defined) ==
  IF ps = <<>> THEN Ok(<<>>)
  ELSE LET v == Head(ps).val
           r == IF v.tag = "Variable"
                THEN (IF v.s \notin defined THEN Err("UndefinedVariable", v.s) ELSE Ok(<<>>))
                ELSE IF v.tag = "Nested" THEN ValidateReferences(v.call, defined)
                ELSE Ok(<<>>)
       IN IF ~r.ok THEN r ELSE ValidateParams(Tail(ps), defined)
ValidateReferences(call, defined) == ValidateParams(call.params, defined)

\* Mutant: the duplicate check is skipped for const statements.
RECURSIVE ValidateFrom_ConstUnchecked(_, _, _)
ValidateFrom_ConstUnchecked(stmts, defined_names, let_names) ==
  IF stmts = <<>> THEN Ok(<<>>)
  ELSE LET st == Head(stmts)
           name == IdentToString(st.name)
           lets == IF st.kind = "Let" THEN let_names \cup {name} ELSE let_names
       IN IF st.kind = "Let" /\ name \in defined_names THEN Err("DuplicateDefinition", name)
          ELSE LET r == ValidateReferences(st.value, lets) IN
               IF ~r.ok THEN r
               ELSE ValidateFrom_ConstUnchecked(Tail(stmts), defined_names \cup {name}, lets)

\* Mutant: the name of a const becomes visible to later references.
RECURSIVE ValidateFrom_ConstVisible(_, _, _)
ValidateFrom_ConstVisible(stmts, defined_names, let_names) ==
  IF stmts = <<>> THEN Ok(<<>>)
  ELSE LET st == Head(stmts)
           name == IdentToString(st.name)
           lets == IF st.kind = "Let" THEN let_names \cup {name} ELSE let_names
       IN IF name \in defined_names THEN Err("DuplicateDefinition", name)
          ELSE LET r == ValidateReferences(st.value, lets) IN
               IF ~r.ok THEN r
               ELSE ValidateFrom_ConstVisible(Tail(stmts), defined_names \cup {name},
                                              lets \cup {name})

\* The loop of validate_block over the remaining statements.
RECURSIVE ValidateFrom(_, _, _)
ValidateFrom(stmts, defined_names, let_names) ==
  IF stmts = <<>> THEN Ok(<<>>)
  ELSE LET st == Head(stmts)
           name == IdentToString(st.name)
           lets == IF st.kind = "Let" THEN let_names \cup {name} ELSE let_names
       IN IF name \in defined_names THEN Err("DuplicateDefinition", name)
          ELSE LET r == ValidateReferences(st.value, lets) IN
               IF ~r.ok THEN r
               ELSE ValidateFrom(Tail(stmts), defined_names \cup {name}, lets)

\* validate_block
ValidateBlock(block) == ValidateFrom(block, {}, {})

\* Mutant: the attributes of the const statement are lost.
Export_NoAttrs(attrs, name, value) == [attrs |-> <<>>, name |-> name, value |-> value]

\* Scope::add_export
Export(attrs, name, value) == [attrs |-> attrs, name |-> name, value |-> value]

\* Scope::generate_output: one `#(#attrs)* const NAME: &str = "value";` per
\* export, the name turned back into an identifier.
GenerateOutput(scope_exports) ==
  [i \in 1..Len(scope_exports) |->
     [attrs |-> scope_exports[i].attrs, const |-> scope_exports[i].name[1],
      value |-> scope_exports[i].value]]

\* ---------------------------------------------------------- eager rewriter
\* is_evaluatable_macro
IsEvaluatableMacro(tok) == tok.t = "Ident" /\ tok.v \in {"tomplate", "concat"}

\* evaluate_tomplate: the string literal token the invocation expands to.
EvaluateTomplate(reg, input) ==
  LET tomplate_input == ParseTomplateInput(input) IN
  IF ~tomplate_input.ok THEN {Err("Parse", tomplate_input.err)}
  ELSE {IF r.ok THEN Ok(<<LitStr(r.val)>>) ELSE r : r \in ProcessTemplate(reg, tomplate_input)}

\* A token syn::Lit parses from: a string, integer, float or character
\* literal, or the identifier true or false.
IsLit(tok) == tok.t \in {"Str", "Int", "Float", "Char"} \/ (tok.t = "Ident" /\ tok.v \in {"true", "false"})
LitKind(tok) == IF tok.t = "Ident" THEN "Bool" ELSE tok.t
TokText(tok) == IF tok.t = "Ident"
                THEN (IF tok.v = "true" THEN <<"t", "r", "u", "e">> ELSE <<"f", "a", "l", "s", "e">>)
                ELSE tok.v

\* input.parse::<syn::LitStr>() and its siblings at position i.  syn parses a
\* Lit from the stream itself and then matches its kind, so a literal of
\* another kind is consumed by the failed attempt; a token that is no
\* literal, or the end of the stream, leaves the position where it was.
ParseLit(stream, i, kind) ==
  IF i <= Len(stream) /\ IsLit(stream[i])
  THEN [ok |-> LitKind(stream[i]) = kind, next |-> i + 1, v |-> TokText(stream[i])]
  ELSE [ok |-> FALSE, next |-> i, v |-> <<>>]

\* One turn of the parser closure of evaluate_concat: the if / else-if chain
\* over LitStr, LitInt, LitFloat and LitBool, then the skip of one token tree,
\* which fails at the end of the stream; at last the optional comma.
ConcatTurn(stream, i) ==
  LET s == ParseLit(stream, i, "Str")
      n == ParseLit(stream, s.next, "Int")
      f == ParseLit(stream, n.next, "Float")
      b == ParseLit(stream, f.next, "Bool")
      r == IF s.ok THEN [ok |-> TRUE, part |-> s.v, next |-> s.next]
           ELSE IF n.ok THEN [ok |-> TRUE, part |-> n.v, next |-> n.next]
           ELSE IF f.ok THEN [ok |-> TRUE, part |-> f.v, next |-> f.next]
           ELSE IF b.ok THEN [ok |-> TRUE, part |-> b.v, next |-> b.next]
           ELSE IF b.next <= Len(stream) THEN [ok |-> TRUE, part |-> <<>>, next |-> b.next + 1]
           ELSE [ok |-> FALSE, part |-> <<>>, next |-> b.next]
  IN IF r.ok /\ r.next <= Len(stream) /\ stream[r.next] = Comma
     THEN [r EXCEPT !.next = r.next + 1] ELSE r

\* The parser closure of evaluate_concat from position i, joined: the parts
\* pushed by the turns, or the error of the turn that ran off the end.
RECURSIVE ConcatParts(_, _)
ConcatParts(stream, i) ==
  IF i > Len(stream) THEN Ok(<<>>)
  ELSE LET turn == ConcatTurn(stream, i) IN
       IF ~turn.ok THEN Err("Parse", "UnexpectedEndOfInput")
       ELSE LET rest == ConcatParts(stream, turn.next) IN
            IF ~rest.ok THEN rest ELSE Ok(turn.part \o rest.val)

RECURSIVE ProcessEager(_, _)
RECURSIVE EagerTurn(_, _)

\* evaluate_concat
EvaluateConcat(reg, input) ==
  {IF ~r.ok THEN r
   ELSE LET parts == ConcatParts(r.val, 1) IN
        IF parts.ok THEN Ok(<<LitStr(parts.val)>>) ELSE parts
     : r \in ProcessEager(reg, input)}

\* evaluate_macro
EvaluateMacro(reg, name, args) ==
  IF name.v = "tomplate" THEN EvaluateTomplate(reg, args.v) ELSE EvaluateConcat(reg, args.v)

\* Mutant: a group whose rewriting fails is emitted as it was, and an
\* invocation that fails is left out.
EagerTurn_Swallow(reg, stream) ==
  LET token == stream[1] IN
  IF IsEvaluatableMacro(token)
  THEN IF Len(stream) >= 2 /\ stream[2] = Bang
       THEN IF Len(stream) >= 3 /\ stream[3].t = "Group"
            THEN [n |-> 3, out |-> {IF r.ok THEN r ELSE Ok(<<>>)
                                      : r \in EvaluateMacro(reg, token, stream[3])}]
            ELSE [n |-> IF Len(stream) >= 3 THEN 3 ELSE 2, out |-> {Ok(<<token, Bang>>)}]
       ELSE [n |-> 1, out |-> {Ok(<<token>>)}]
  ELSE IF token.t = "Group"
  THEN [n |-> 1, out |-> {IF r.ok THEN Ok(<<Group(token.d, r.val)>>) ELSE Ok(<<token>>)
                            : r \in ProcessEager(reg, token.v)}]
  ELSE [n |-> 1, out |-> {Ok(<<token>>)}]

\* What one turn of the loop of process_eager takes from the front of the
\* stream (n tokens) and what it appends to the output (out).
EagerTurn(reg, stream) ==
  LET token == stream[1] IN
  IF IsEvaluatableMacro(token)
  THEN IF Len(stream) >= 2 /\ stream[2] = Bang
       THEN IF Len(stream) >= 3 /\ stream[3].t = "Group"
            THEN [n |-> 3, out |-> EvaluateMacro(reg, token, stream[3])]
            ELSE [n |-> IF Len(stream) >= 3 THEN 3 ELSE 2, out |-> {Ok(<<token, Bang>>)}]
       ELSE [n |-> 1, out |-> {Ok(<<token>>)}]
  ELSE IF token.t = "Group"
  THEN [n |-> 1, out |-> {IF r.ok THEN Ok(<<Group(token.d, r.val)>>) ELSE r
                            : r \in ProcessEager(reg, token.v)}]
  ELSE [n |-> 1, out |-> {Ok(<<token>>)}]

\* process_eager: every result of rewriting the stream.
ProcessEager(reg, stream) ==
  IF stream = <<>> THEN {Ok(<<>>)}
  ELSE LET turn == EagerTurn(reg, stream) IN
       UNION {IF ~e.ok THEN {e}
              ELSE {IF r.ok THEN Ok(e.val \o r.val) ELSE r
                      : r \in ProcessEager(reg, SubSeq(stream, turn.n + 1, Len(stream)))}
                : e \in turn.out}

\* ------------------------------------------------- SpecEngine: rendering
Keys == {<<"a">>, <<"b">>}
EngAlphabet == {LB, RB, "a", "b", "x"}
EngValues == {<<"x">>, <<>>, <<LB, "b", RB>>, <<LB, "a", RB>>, <<LB>>, <<"b", RB>>}

RECURSIVE StringsUpTo(_, _)
StringsUpTo(A, n) ==
  IF n = 0 THEN {<<>>}
  ELSE LET S == StringsUpTo(A, n - 1) IN S \cup {Append(s, c) : s \in S, c \in A}

EngPatterns == StringsUpTo(EngAlphabet, MaxPatLen)
                 \cup {<<LB, "a", RB, LB, "a", RB>>, <<LB, "a", RB, "x", LB, "b", RB>>,
                       <<LB, LB, "a", RB, RB>>}
EngParamMaps == UNION {[K -> EngValues] : K \in SUBSET Keys}
EngineNames == {"simple", "", "bogus", "handlebars", "Simple"}

EngIdle == [done |-> FALSE, engine |-> "", template |-> <<>>, params |-> <<>>,
            ord |-> <<>>, out |-> Ok(<<>>)]

NoSelection == Selection(<<>>, "")
DirectIdle == [done |-> FALSE, args |-> <<>>, sel |-> NoSelection, out |-> Ok(<<>>)]

ResolveIdle == /\ build = <<>> /\ registry = <<>> /\ blk = <<>> /\ pc = "idle" /\ idx = 0
               /\ locals = <<>> /\ exports = <<>> /\ result = Ok(<<>>)
               /\ first = Ok(<<>>) /\ run = 0 /\ sel = <<>> /\ direct = DirectIdle
EagerIdle == eager = [done |-> FALSE, input |-> <<>>, out |-> Ok(<<>>)]
EntryIdle == entry = [done |-> FALSE, input |-> <<>>, form |-> "none"]
LoopIdle == loop = [kind |-> "none", input |-> <<>>, stream |-> <<>>, pos |-> 1, turns |-> 0,
                    acc |-> Ok(<<>>), done |-> FALSE]
BuilderIdle == builder = [mode |-> "Overwrite", builds |-> 0, out |-> Ok(<<>>), before |-> None]

InitEngine == /\ eng = EngIdle /\ ResolveIdle /\ EagerIdle /\ EntryIdle
              /\ BuilderIdle /\ LoopIdle /\ artifact = None

\* One call of engines::process on a pattern and a HashMap of parameters.
EngineProcess ==
  /\ ~eng.done
  /\ \E e \in EngineNames, t \in EngPatterns, M \in EngParamMaps :
       \E ord \in Perms(DOMAIN M) :
         eng' = [done |-> TRUE, engine |-> e, template |-> t, params |-> M,
                 ord |-> ord, out |-> EnginesProcess(e, t, M, ord)]
  /\ UNCHANGED <<build, registry, blk, pc, idx, locals, exports, result, first, run, sel, direct, eager, entry, builder, artifact, loop>>

NextEngine == EngineProcess
SpecEngine == InitEngine /\ [][NextEngine]_vars

\* --- reference semantics used by the properties of the simple engine
KeyAt(s, M, i) == {k \in DOMAIN M : IsPrefixAt(s, Placeholder(k), i)}

RECURSIVE RefSubstFrom(_, _, _)
RefSubstFrom(s, M, i) ==
  IF i > Len(s) THEN <<>>
  ELSE IF KeyAt(s, M, i) # {}
       THEN LET k == CHOOSE k \in KeyAt(s, M, i) : TRUE
            IN M[k] \o RefSubstFrom(s, M, i + Len(Placeholder(k)))
       ELSE <<s[i]>> \o RefSubstFrom(s, M, i + 1)

\* P with every occurrence of {key} replaced by M[key], in a single pass.
RefSubst(P, M) == RefSubstFrom(P, M, 1)

\* The names of the {name} spans of s: a LB, a non-empty text without RB, a RB.
SpanNames(s) ==
  {SubSeq(s, q[1] + 1, q[2] - 1) : q \in
     {q \in (1..Len(s)) \X (1..Len(s)) :
        /\ q[2] > q[1] + 1 /\ s[q[1]] = LB /\ s[q[2]] = RB
        /\ \A m \in (q[1] + 1)..(q[2] - 1) : s[m] # RB}}
HasSpan(s) == SpanNames(s) # {}
Covers(P, M) == SpanNames(P) \subseteq DOMAIN M

EngSimpleDone == eng.done /\ eng.engine = "simple"

\* C1 (as claimed): for every pattern P and map M covering the placeholders of
\* P, whatever M's values contain and whatever the visiting order, the simple
\* engine returns P with every {key} replaced by M[key] and the returned text
\* has no {name} placeholder left.
C1_Claim ==
  (EngSimpleDone /\ Covers(eng.template, eng.params)) =>
     /\ eng.out.ok
     /\ eng.out.val = RefSubst(eng.template, eng.params)
     /\ SpanNames(eng.out.val) = {}

\* C1 (amended): for every pattern P and map M covering the placeholders of P
\* such that P with every {key} replaced by M[key] contains no {name} span,
\* the simple engine succeeds and returns exactly that text, for every
\* visiting order of the keys.
C1_Amended ==
  (EngSimpleDone /\ Covers(eng.template, eng.params)
     /\ ~HasSpan(RefSubst(eng.template, eng.params))) =>
     eng.out = Ok(RefSubst(eng.template, eng.params))

\* C1 witness: two keys, both substituted, one of them twice over.
C1_Witness ==
  /\ EngSimpleDone /\ DOMAIN eng.params = Keys
  /\ Covers(eng.template, eng.params)
  /\ ~HasSpan(RefSubst(eng.template, eng.params))
  /\ eng.template = <<LB, "a", RB, "x", LB, "b", RB>>
  /\ eng.params[<<"a">>] = <<"b", RB>>
  /\ eng.out.ok /\ eng.out.val # eng.template

\* ------------------------------------------ Spec: invocations and blocks
\* Token streams of the inputs.
S(str) == <<LitStr(str)>>
Arg(k, value) == <<Comma, Ident(k), Eq>> \o value
TInv(args) == <<Ident("tomplate"), Bang, Group("Paren", args)>>

P_a == <<LB, "a", RB>>
P_b == <<LB, "b", RB>>
P_c == <<LB, "c", RB>>
P_ab == <<LB, "a", RB, LB, "b", RB>>

\* The template files given to the builder and its default engine.
FileTU == (<<"t">> :> Template(P_ab, None)) @@ (<<"u">> :> Template(P_a, Some("simple")))
FileW == (<<"w">> :> Template(<<"x">>, Some("handlebars")))
BuildInput(files, default_engine) == [files |-> files, default_engine |-> default_engine]
BuildInputs == {BuildInput(<<>>, None), BuildInput(<<FileTU>>, None),
                BuildInput(<<FileTU>>, Some("Handlebars")),
                BuildInput(<<FileTU, FileW>>, Some("Simple"))}

ArgSources == {P_a, P_ab, <<"t">>, <<"u">>, <<"w">>}
ArgValues == {S(<<"x">>), S(P_b), S(<<"x", QUOTE>>), S(<<BSL>>),
              TInv(S(<<QUOTE>>)), TInv(S(P_c)),
              TInv(S(P_a) \o Arg("a", S(<<NL>>))),
              TInv(S(<<"t">>) \o Arg("a", S(<<"x">>)) \o Arg("b", TInv(S(<<"x">>))))}
ArgNames == {"a", "b"}

RECURSIVE ArgLists(_)
ArgLists(n) ==
  IF n = 0 THEN {<<>>}
  ELSE LET A == ArgLists(n - 1) IN A \cup {l \o Arg(k, v) : l \in A, k \in ArgNames, v \in ArgValues}

\* Well-formed invocations, and a few the direct grammar rejects.
ArgPool == {S(src) \o l : src \in ArgSources, l \in ArgLists(MaxParams)}
             \cup {S(P_a) \o Arg("a", <<Ident("b")>>), <<Ident("foo")>>, <<>>,
                   S(P_a) \o Arg("a", S(<<"x">>)) \o <<Comma>>,
                   S(P_a) \o Arg("a", TInv(S(P_b) \o Arg("b", <<Ident("a")>>)))}

\* The TemplateCall a statement holds.
Call(args) == [source |-> ParseTemplateArgs(args).source, params |-> ParseTemplateArgs(args).params]

Stmts ==
  {Let("a", Call(S(<<"x">>))),
   Let("b", Call(S(P_a) \o Arg("a", <<Ident("a")>>))),
   Let("a", Call(S(P_a) \o Arg("a", TInv(S(P_b) \o Arg("b", <<Ident("b")>>))))),
   Let("b", Call(S(P_a) \o Arg("a", <<Ident("b")>>))),
   Let("b", Call(S(P_c))),
   Const(<<>>, "c", Call(S(P_a) \o Arg("a", <<Ident("a")>>))),
   Const(<<"cfg">>, "d", Call(S(<<"t">>) \o Arg("a", <<Ident("a")>>) \o Arg("b", <<Ident("b")>>))),
   Const(<<>>, "c", Call(S(P_a) \o Arg("a", S(P_b)) \o Arg("b", S(<<"x">>)))),
   Const(<<>>, "a", Call(S(<<"x">>))),
   Const(<<>>, "d", Call(S(P_ab) \o Arg("a", <<Ident("a")>>) \o Arg("b", S(<<"y">>))))}

Blocks == UNION {[1..n -> Stmts] : n \in 0..MaxStmts}

\* The tokens of statements, well-formed and not, and of the inputs handed
\* to the tomplate entry point.
LetT(name, args) == <<Ident("let"), Ident(name), Eq>> \o TInv(args) \o <<Semi>>
ConstT(name, args) == <<Ident("const"), Ident(name), Eq>> \o TInv(args) \o <<Semi>>
AttrT(n) == <<Hash, Group("Bracket", <<Ident(n)>>)>>

EntryPieces ==
  {LetT("a", S(<<"x">>)),
   LetT("b", S(P_a) \o Arg("a", <<Ident("a")>>)) \o <<Comma>>,
   ConstT("c", S(P_a) \o Arg("a", <<Ident("a")>>)),
   AttrT("cfg") \o ConstT("d", S(<<"t">>) \o Arg("a", S(<<"x">>)) \o Arg("b", S(<<"y">>))),
   ConstT("c", S(P_c)),
   AttrT("cfg") \o LetT("a", S(<<"x">>)),
   <<Ident("const"), Ident("c"), Eq, Ident("foo"), Bang, Group("Paren", S(<<"x">>)), Semi>>,
   <<Ident("let"), Ident("a"), Eq>> \o TInv(S(<<"x">>))}

RECURSIVE Flatten(_)
Flatten(pieces) == IF pieces = <<>> THEN <<>> ELSE Head(pieces) \o Flatten(Tail(pieces))

\* Parameter values of every shape parse_param_value tells apart, and the
\* block `let a = tomplate!("x"); const c = tomplate!("{a}", a = value);`.
ParamValueTokens ==
  {S(<<"x">>), <<LitInt(<<"7">>)>>, <<LitFloat(<<"1", ".", "5">>)>>, <<Ident("true")>>,
   <<Ident("false")>>, <<LitChar(<<"q">>)>>, <<Ident("a")>>, <<Colon, Colon, Ident("a")>>,
   <<Ident("a"), Colon, Colon, Ident("b")>>, TInv(S(<<"y">>)), TInv(<<Ident("foo")>>),
   <<Ident("foo"), Bang, Group("Paren", S(<<"x">>))>>, <<Punct("-"), LitInt(<<"7">>)>>}
ParamInput(value) == LetT("a", S(<<"x">>)) \o ConstT("c", S(P_a) \o Arg("a", value))

EntryInputs ==
  {Flatten(ps) : ps \in UNION {[1..n -> EntryPieces] : n \in 0..MaxStmts}}
    \cup {S(<<"x">>), S(P_a) \o Arg("a", S(<<"x">>)), S(<<"u">>) \o Arg("a", TInv(S(<<"y">>))),
          S(P_a), <<Ident("foo")>>, <<Hash>>, <<Comma>>,
          LetT("a", S(<<"x">>)) \o LetT("a", S(<<"y">>)) \o ConstT("c", S(P_a) \o Arg("a", <<Ident("a")>>))}
    \cup {ParamInput(value) : value \in ParamValueTokens}

Init == /\ eng = EngIdle /\ EagerIdle /\ EntryIdle /\ BuilderIdle /\ LoopIdle
        /\ build \in BuildInputs
        /\ \E a \in BuildArtifacts(build.files, build.default_engine) :
             a.ok /\ artifact = Some(a.val) /\ registry = LoadTemplates(ReadArtifact(artifact))
        /\ blk = <<>> /\ pc = "idle" /\ idx = 0 /\ locals = <<>> /\ exports = <<>>
        /\ result = Ok(<<>>) /\ first = Ok(<<>>) /\ run = 0 /\ sel = <<>>
        /\ direct = DirectIdle

\* Mutant: the loop starts without the validation pass.
BeginBlock_NoValidate(b) ==
  /\ blk' = b /\ locals' = <<>> /\ exports' = <<>> /\ sel' = <<>>
  /\ pc' = "eval" /\ idx' = 1 /\ result' = Ok(<<>>)

\* process_block up to its loop: a fresh scope and validate_block.
BeginBlock(b) ==
  /\ blk' = b /\ locals' = <<>> /\ exports' = <<>> /\ sel' = <<>>
  /\ LET v == ValidateBlock(b) IN
     IF v.ok THEN pc' = "eval" /\ idx' = 1 /\ result' = Ok(<<>>)
     ELSE pc' = "done" /\ idx' = 0 /\ result' = v

\* tomplate!(args) expanded in its single-invocation form.
ExpandDirect ==
  /\ pc = "idle"
  /\ \E args \in ArgPool :
       LET input == ParseTomplateInput(args) IN
       \E out \in (IF input.ok THEN ProcessTemplate(registry, input)
                   ELSE {Err("Parse", input.err)}) :
         direct' = [done |-> TRUE, args |-> args,
                    sel |-> IF input.ok THEN SelectDirect(registry, input.source)
                            ELSE NoSelection,
                    out |-> out]
  /\ pc' = "direct"
  /\ UNCHANGED <<eng, build, registry, blk, idx, locals, exports, result, first, run, sel, eager, entry, builder, artifact, loop>>

\* tomplate! { ... } on a composition block.
ProcessBlockStart ==
  /\ pc = "idle"
  /\ \E b \in Blocks : BeginBlock(b)
  /\ run' = 1
  /\ UNCHANGED <<eng, build, registry, first, direct, eager, entry, builder, artifact, loop>>

\* The block `const c = tomplate!(args);` for the arguments of the direct
\* invocation expanded before it.
ProcessBlockSame ==
  /\ pc = "direct"
  /\ ParseTemplateArgs(direct.args).ok
  /\ BeginBlock(<<Const(<<>>, "c", Call(direct.args))>>)
  /\ run' = 1
  /\ UNCHANGED <<eng, build, registry, first, direct, eager, entry, builder, artifact, loop>>

\* Mutant: a let whose resolution fails is bound to the empty string and
\* the loop goes on.
EvalLet_Swallow ==
  /\ pc = "eval" /\ idx <= Len(blk) /\ blk[idx].kind = "Let"
  /\ \E r \in ProcessTemplateCall(registry, blk[idx].value, locals) :
       locals' = Insert(locals, IdentToString(blk[idx].name), r.val)
  /\ idx' = idx + 1
  /\ sel' = Append(sel, SelectBlock(registry, blk[idx].value.source))
  /\ UNCHANGED <<eng, build, registry, blk, pc, result, exports, first, run, direct, eager, entry, builder, artifact, loop>>

\* One iteration of the loop of process_block on a let statement.
EvalLet ==
  /\ pc = "eval" /\ idx <= Len(blk) /\ blk[idx].kind = "Let"
  /\ \E r \in ProcessTemplateCall(registry, blk[idx].value, locals) :
       IF r.ok
       THEN /\ locals' = Insert(locals, IdentToString(blk[idx].name), r.val)
            /\ idx' = idx + 1 /\ UNCHANGED <<pc, result>>
       ELSE /\ pc' = "done" /\ result' = r /\ UNCHANGED <<locals, idx>>
  /\ sel' = Append(sel, SelectBlock(registry, blk[idx].value.source))
  /\ UNCHANGED <<eng, build, registry, blk, exports, first, run, direct, eager, entry, builder, artifact, loop>>

\* Mutant: an evaluated const is also registered as a template.
EvalConst_Register ==
  /\ pc = "eval" /\ idx <= Len(blk) /\ blk[idx].kind = "Const"
  /\ \E r \in ProcessTemplateCall(registry, blk[idx].value, locals) :
       IF r.ok
       THEN /\ exports' = Append(exports, Export(blk[idx].attrs, IdentToString(blk[idx].name), r.val))
            /\ registry' = (IdentToString(blk[idx].name) :> Template(r.val, None)) @@ registry
            /\ idx' = idx + 1 /\ UNCHANGED <<pc, result>>
       ELSE /\ pc' = "done" /\ result' = r /\ UNCHANGED <<exports, idx, registry>>
  /\ sel' = Append(sel, SelectBlock(registry, blk[idx].value.source))
  /\ UNCHANGED <<eng, build, blk, locals, first, run, direct, eager, entry, builder, artifact, loop>>

\* One iteration of the loop of process_block on a const statement.
EvalConst ==
  /\ pc = "eval" /\ idx <= Len(blk) /\ blk[idx].kind = "Const"
  /\ \E r \in ProcessTemplateCall(registry, blk[idx].value, locals) :
       IF r.ok
       THEN /\ exports' = Append(exports, Export(blk[idx].attrs, IdentToString(blk[idx].name), r.val))
            /\ idx' = idx + 1 /\ UNCHANGED <<pc, result>>
       ELSE /\ pc' = "done" /\ result' = r /\ UNCHANGED <<exports, idx>>
  /\ sel' = Append(sel, SelectBlock(registry, blk[idx].value.source))
  /\ UNCHANGED <<eng, build, registry, blk, locals, first, run, direct, eager, entry, builder, artifact, loop>>

\* The end of process_block: Ok(scope.generate_output()).
FinishBlock ==
  /\ pc = "eval" /\ idx > Len(blk)
  /\ pc' = "done" /\ result' = Ok(GenerateOutput(exports))
  /\ UNCHANGED <<eng, build, registry, blk, idx, locals, exports, first, run, sel, direct, eager, entry, builder, artifact, loop>>

\* The same block processed a second time by the same process.
ProcessBlockAgain ==
  /\ pc = "done" /\ run = 1 /\ ~direct.done
  /\ first' = result /\ run' = 2
  /\ BeginBlock(blk)
  /\ UNCHANGED <<eng, build, registry, direct, eager, entry, builder, artifact, loop>>

\* Mutant: a block that fails validation falls back to the
\* single-invocation form.
TomplateEntry_Fallback ==
  /\ pc = "idle"
  /\ \E input \in EntryInputs :
       LET block == ParseCompositionBlock(input)
           d == ParseTomplateInput(input)
       IN IF block.ok /\ ValidateBlock(block.val).ok
          THEN /\ BeginBlock(block.val) /\ run' = 1
               /\ entry' = [done |-> TRUE, input |-> input, form |-> "block"]
               /\ UNCHANGED direct
          ELSE /\ \E out \in (IF d.ok THEN ProcessTemplate(registry, d)
                               ELSE {Err("Parse", d.err)}) :
                    direct' = [done |-> TRUE, args |-> input,
                               sel |-> IF d.ok THEN SelectDirect(registry, d.source)
                                       ELSE NoSelection,
                               out |-> out]
               /\ entry' = [done |-> TRUE, input |-> input,
                            form |-> IF d.ok THEN "direct" ELSE "error"]
               /\ pc' = "direct"
               /\ UNCHANGED <<blk, idx, locals, exports, result, run, sel>>
  /\ UNCHANGED <<eng, build, registry, first, eager, builder, artifact, loop>>

\* The tomplate entry point on the tokens between its delimiters: the
\* input is parsed as a composition block and processed as one; when that
\* parse fails it is parsed and processed as a single invocation, and the
\* error of the second parse is the one reported.
TomplateEntry ==
  /\ pc = "idle"
  /\ \E input \in EntryInputs :
       LET block == ParseCompositionBlock(input)
           d == ParseTomplateInput(input)
       IN IF block.ok
          THEN /\ BeginBlock(block.val) /\ run' = 1
               /\ entry' = [done |-> TRUE, input |-> input, form |-> "block"]
               /\ UNCHANGED direct
          ELSE /\ \E out \in (IF d.ok THEN ProcessTemplate(registry, d)
                               ELSE {Err("Parse", d.err)}) :
                    direct' = [done |-> TRUE, args |-> input,
                               sel |-> IF d.ok THEN SelectDirect(registry, d.source)
                                       ELSE NoSelection,
                               out |-> out]
               /\ entry' = [done |-> TRUE, input |-> input,
                            form |-> IF d.ok THEN "direct" ELSE "error"]
               /\ pc' = "direct"
               /\ UNCHANGED <<blk, idx, locals, exports, result, run, sel>>
  /\ UNCHANGED <<eng, build, registry, first, eager, builder, artifact, loop>>

Next == \/ ExpandDirect \/ ProcessBlockStart \/ ProcessBlockSame
        \/ EvalLet \/ EvalConst \/ FinishBlock \/ ProcessBlockAgain
        \/ TomplateEntry
Spec == Init /\ [][Next]_vars

\* ------------------------------------------------------------ properties
\* The source string of an invocation: the value of its first token.
SourceOf(args) == args[1].v
NoParams(args) == Len(args) = 1

\* What registry-first resolution selects for a source string.
RegistryFirst(src) ==
  IF src \in DOMAIN registry
  THEN Selection(registry[src].template,
                 IF registry[src].engine = None THEN "simple" ELSE registry[src].engine[1])
  ELSE Selection(src, "simple")

DirectParsed == direct.done /\ ~(direct.out.err = "Parse" /\ direct.sel = NoSelection)

\* C2: in the direct path and in the block path alike, a source string that
\* is a key of the registry selects that Template's pattern and engine, and
\* any other source string is itself the pattern, rendered by "simple"; an
\* invocation without parameters renders exactly the selected pattern.
C2_RegistryFirst ==
  /\ DirectParsed =>
       /\ direct.sel = RegistryFirst(SourceOf(direct.args))
       /\ NoParams(direct.args) =>
            direct.out = EnginesProcess(RegistryFirst(SourceOf(direct.args)).engine,
                                        RegistryFirst(SourceOf(direct.args)).template, <<>>, <<>>)
  /\ \A i \in 1..Len(sel) : sel[i] = RegistryFirst(blk[i].value.source)
  /\ (pc = "done" /\ result.ok) =>
       \A i \in 1..Len(blk) :
         (Len(blk) = 1 /\ blk[i].kind = "Const" /\ blk[i].value.params = <<>>) =>
            result.val[1].value = RegistryFirst(blk[i].value.source).template

\* C2 witness: the registry key "u" resolved by both paths to its pattern {a}.
C2_Witness ==
  /\ direct.done /\ direct.args = S(<<"u">>) \o Arg("a", S(<<"x">>))
  /\ direct.sel = Selection(P_a, "simple") /\ direct.out = Ok(<<"x">>)
  /\ pc = "done" /\ result.ok /\ Len(sel) = 1 /\ sel[1] = Selection(P_a, "simple")
  /\ result.val[1].value = <<"x">>

\* A variable reference somewhere in an argument stream: an identifier that
\* is the value of a `key = value` pair.
RECURSIVE HasVarRef(_)
HasVarRef(stream) ==
  \E i \in 1..Len(stream) :
    \/ /\ stream[i].t = "Ident" /\ i > 1 /\ stream[i - 1] = Eq
       /\ (i = Len(stream) \/ stream[i + 1] # Bang)
    \/ stream[i].t = "Group" /\ HasVarRef(stream[i].v)

SameBlockDone == direct.done /\ pc = "done" /\ run = 1

\* C3 (as claimed): for every invocation without variable references whose
\* result does not depend on the visiting order of its parameters, the
\* direct path and the block path give the same outcome: the same resolved
\* string, character for character, or an error alike.
C3_Claim ==
  (SameBlockDone /\ ~HasVarRef(direct.args)
     /\ Cardinality(ProcessTemplateCall(registry, blk[1].value, <<>>)) = 1) =>
    /\ direct.out.ok = result.ok
    /\ result.ok => result.val[1].value = direct.out.val
    /\ ~result.ok => (result.err = direct.out.err /\ result.arg = direct.out.arg)

\* The const statements of a block, in statement order.
ConstsOf(b) == SelectSeq(b, LAMBDA st : st.kind = "Const")
LetNamesOf(b) == {b[i].name : i \in {j \in 1..Len(b) : b[j].kind = "Let"}}
UsesLetA == Const(<<>>, "c", Call(S(P_a) \o Arg("a", <<Ident("a")>>)))
UsesLetAToo == Const(<<>>, "d", Call(S(P_ab) \o Arg("a", <<Ident("a")>>) \o Arg("b", S(<<"y">>))))

\* C4: when process_block succeeds, its output has exactly one entry per
\* const statement, in statement order, with that statement's attributes,
\* name and resolved string; no let name is among them, and a let value used
\* by several consts is substituted as the same text in each.
C4_Exports ==
  (pc = "done" /\ result.ok) =>
    LET consts == ConstsOf(blk) IN
    /\ Len(result.val) = Len(consts)
    /\ \A i \in 1..Len(consts) :
         /\ result.val[i].attrs = consts[i].attrs
         /\ result.val[i].const = consts[i].name
         /\ result.val[i].value \in
              {r.val : r \in {x \in ProcessTemplateCall(registry, consts[i].value, locals) : x.ok}}
         /\ result.val[i].const \notin LetNamesOf(blk)
         /\ consts[i] = UsesLetA => result.val[i].value = locals[<<"a">>]
         /\ (consts[i] = UsesLetAToo /\ ~Contains(locals[<<"a">>], LB)) =>
              result.val[i].value = locals[<<"a">>] \o <<"y">>

\* C4 witness: `let a` used by two consts of a block that succeeded.
C4_Witness ==
  /\ pc = "done" /\ result.ok /\ Len(blk) = 3 /\ blk[1].kind = "Let"
  /\ blk[2] = UsesLetA /\ blk[3] = UsesLetAToo
  /\ Len(result.val) = 2 /\ result.val[1].value = <<"x">> /\ result.val[2].value = <<"x", "y">>

\* The variables a call references, at any nesting depth.
RECURSIVE VarRefs(_)
VarRefs(call) ==
  UNION {IF call.params[i].val.tag = "Variable" THEN {call.params[i].val.s}
         ELSE IF call.params[i].val.tag = "Nested" THEN VarRefs(call.params[i].val.call)
         ELSE {} : i \in 1..Len(call.params)}

NameOf(st) == <<st.name>>
LetsIn(b, lo, hi) == {NameOf(b[j]) : j \in {k \in lo..hi : k <= Len(b) /\ b[k].kind = "Let"}}
NamesIn(b, lo, hi) == {NameOf(b[j]) : j \in {k \in lo..hi : k <= Len(b)}}

\* Statement i references a let that only a later statement defines.
ForwardRefAt(b, i) ==
  \E n \in VarRefs(b[i].value) : n \in LetsIn(b, i + 1, Len(b)) /\ n \notin LetsIn(b, 1, i)
ForwardRef(b) == \E i \in 1..Len(b) : ForwardRefAt(b, i)

\* Statement j defines a name that an earlier statement defined.
DuplicateAt(b, j) == NameOf(b[j]) \in NamesIn(b, 1, j - 1)
HasDuplicate(b) == \E j \in 1..Len(b) : DuplicateAt(b, j)

\* Statement i references a name that is no let of statements 1..i.
UndefinedAt(b, i) == ~(VarRefs(b[i].value) \subseteq LetsIn(b, 1, i))

Started == run >= 1
NothingEvaluated == pc = "done" /\ locals = <<>> /\ exports = <<>> /\ sel = <<>>

\* C5 (as claimed): a block in which a statement references, at any depth, a
\* let defined only by a later statement fails with the undefined-variable
\* error, emits no export and never resolves the reference.
C5_Claim ==
  (Started /\ ForwardRef(blk)) =>
    /\ NothingEvaluated
    /\ ~result.ok /\ result.err = "UndefinedVariable" /\ result.val = <<>>

\* C5 (amended): such a block fails with a scope error before anything is
\* evaluated and emits no export: the undefined-variable error when no name
\* is defined twice up to the referencing statement, and otherwise either
\* that error or the duplicate-definition error.
C5_Amended ==
  (Started /\ ForwardRef(blk)) =>
    /\ NothingEvaluated
    /\ ~result.ok /\ result.val = <<>>
    /\ result.err \in {"UndefinedVariable", "DuplicateDefinition"}
    /\ \A i \in 1..Len(blk) :
         (ForwardRefAt(blk, i) /\ \A j \in 1..i : ~DuplicateAt(blk, j)) =>
            result.err = "UndefinedVariable"

\* C5 witness: `let a` whose nested call references `b`, defined after it.
C5_Witness ==
  /\ Started /\ Len(blk) = 2 /\ ForwardRefAt(blk, 1)
  /\ blk[1].value.params[1].val.tag = "Nested"
  /\ blk[2].kind = "Let" /\ blk[2].name = "b"
  /\ pc = "done" /\ result = Err("UndefinedVariable", <<"b">>)

C7_Claim == (run = 2 /\ pc = "done") => result = first

\* The engine a template file and the builder's default prescribe for a name.
FileOf(n) == CHOOSE i \in 1..Len(build.files) : n \in DOMAIN build.files[i]
PrescribedEngine(n) ==
  LET e == build.files[FileOf(n)][n].engine IN
  IF e # None THEN e[1]
  ELSE IF build.default_engine = None THEN "simple"
  ELSE IF build.default_engine[1] = "Handlebars" THEN "handlebars" ELSE "simple"

\* C8: a registry template without an engine is rendered with the builder's
\* default engine if one was configured and with "simple" otherwise, an
\* explicit engine is kept, and the direct path and the block path choose
\* the same engine for the same template.
C8_EngineSelection ==
  /\ \A n \in DOMAIN registry :
       UnwrapOrSimple(registry[n].engine) = PrescribedEngine(n)
  /\ (DirectParsed /\ SourceOf(direct.args) \in DOMAIN registry) =>
       direct.sel.engine = PrescribedEngine(SourceOf(direct.args))
  /\ \A i \in 1..Len(sel) :
       blk[i].value.source \in DOMAIN registry =>
          sel[i].engine = PrescribedEngine(blk[i].value.source)
  /\ (SameBlockDone /\ DirectParsed /\ Len(sel) = 1) => sel[1].engine = direct.sel.engine
  /\ (DirectParsed /\ SourceOf(direct.args) \in DOMAIN registry
        /\ PrescribedEngine(SourceOf(direct.args)) = "handlebars"
        /\ direct.out.err # "Parse"
        /\ \A i \in 1..Len(ParseTomplateInput(direct.args).params) :
             LET p == ParseTomplateInput(direct.args).params[i] IN
             p.val.tag = "Literal" \/ \A r \in ExpandMacro(registry, p.val.call) : r.ok) =>
       direct.out = Err("UnknownEngine", "handlebars")

\* C8 witness: template "t" has no engine and the default is Handlebars, "u"
\* keeps its explicit engine; "t" was invoked directly and in a block.
C8_Witness ==
  /\ build.default_engine = Some("Handlebars")
  /\ registry[<<"u">>].engine = Some("simple")
  /\ SameBlockDone /\ SourceOf(direct.args) = <<"t">>
  /\ direct.sel.engine = "handlebars" /\ Len(sel) = 1 /\ sel[1].engine = "handlebars"
  /\ result = Err("UnknownEngine", "handlebars")

\* ------------------------------------------------ SpecEager: tomplate_eager
EagerBuildInputs == {BuildInput(<<>>, None), BuildInput(<<FileTU>>, None)}

FragmentTokens ==
  {Ident("tomplate"), Ident("concat"), Ident("foo"), Bang, Comma, LitStr(<<"x">>),
   Group("Paren", S(P_a) \o Arg("a", S(<<"x", QUOTE>>))),
   Group("Paren", S(<<"t">>) \o Arg("a", S(P_b)) \o Arg("b", S(<<"y">>))),
   Group("Paren", <<Ident("foo")>>),
   Group("Bracket", TInv(S(<<"y">>)) \o <<Comma, LitStr(<<"z">>)>>),
   Group("Brace", <<Group("Bracket", <<Ident("tomplate"), Bang, Group("Brace", S(<<"y">>))>>)>>),
   Group("Brace", <<Ident("concat"), Bang, Ident("foo")>>),
   Group("Paren", <<Ident("tomplate"), Bang>> \o TInv(S(<<"y">>)))}

\* Fragments in which an invocation that resolves comes before one that
\* fails: side by side, the failing one in a group, and two groups deep.
FailingFragments ==
  {TInv(S(<<"y">>)) \o TInv(S(P_c)),
   TInv(S(<<"y">>)) \o <<Group("Brace", TInv(S(P_c)))>>,
   TInv(S(<<"y">>)) \o <<Group("Paren", <<Group("Bracket", TInv(<<Ident("foo")>>))>>)>>}

Fragments == UNION {[1..n -> FragmentTokens] : n \in 0..MaxTokens} \cup FailingFragments

InitEager == /\ eng = EngIdle /\ EagerIdle /\ EntryIdle /\ BuilderIdle /\ LoopIdle
             /\ build \in EagerBuildInputs
             /\ \E a \in BuildArtifacts(build.files, build.default_engine) :
                  a.ok /\ artifact = Some(a.val) /\ registry = LoadTemplates(ReadArtifact(artifact))
             /\ blk = <<>> /\ pc = "idle" /\ idx = 0 /\ locals = <<>> /\ exports = <<>>
             /\ result = Ok(<<>>) /\ first = Ok(<<>>) /\ run = 0 /\ sel = <<>>
             /\ direct = DirectIdle

\* tomplate_eager! { fragment }
ExpandEager ==
  /\ ~eager.done
  /\ \E fragment \in Fragments :
       \E out \in ProcessEager(registry, fragment) :
         eager' = [done |-> TRUE, input |-> fragment, out |-> out]
  /\ UNCHANGED <<eng, build, registry, blk, pc, idx, locals, exports, result, first, run, sel, direct, entry, builder, artifact, loop>>

\* The elements of a concat!(...) argument list: literals of the four kinds,
\* invocations that resolve and one that does not, and elements that are
\* no literal after rewriting.
ConcatElements ==
  {S(<<"x">>), S(<<" ", "U", " ">>), <<LitInt(<<"1">>)>>, <<LitFloat(<<"1", ".", "5">>)>>,
   <<Ident("true")>>, TInv(S(<<"y">>)), TInv(S(<<"u">>) \o Arg("a", S(<<"z">>))),
   TInv(S(P_c)), <<Ident("foo")>>, <<Group("Paren", S(<<"x">>))>>}

ElementLists == UNION {[1..n -> ConcatElements] : n \in 0..MaxElems}

\* The elements written one after the other with a comma between them.
RECURSIVE JoinCommas(_)
JoinCommas(elems) ==
  IF elems = <<>> THEN <<>>
  ELSE IF Len(elems) = 1 THEN elems[1]
  ELSE elems[1] \o <<Comma>> \o JoinCommas(Tail(elems))

\* tomplate_eager! { concat!(e1, ..., en) }
ExpandConcat ==
  /\ ~eager.done
  /\ \E elems \in ElementLists :
       LET fragment == <<Ident("concat"), Bang, Group("Paren", JoinCommas(elems))>> IN
       \E out \in ProcessEager(registry, fragment) :
         eager' = [done |-> TRUE, input |-> fragment, out |-> out]
  /\ UNCHANGED <<eng, build, registry, blk, pc, idx, locals, exports, result, first, run, sel, direct, entry, builder, artifact, loop>>

NextEager == ExpandEager \/ ExpandConcat
SpecEager == InitEager /\ [][NextEager]_vars

\* ------------------------------------- SpecLoops: the loops of the rewriter
\* The loop of process_eager and the loop of the parser closure of
\* evaluate_concat, one iteration per step: loop.stream is the stream the
\* loop reads, loop.pos the next token to read, loop.turns the iterations
\* made, loop.acc the output built so far or the error returned.
LoopTokens ==
  {Ident("tomplate"), Bang, Ident("foo"), Group("Paren", S(<<"y">>)), Group("Paren", S(P_c)),
   Group("Bracket", TInv(S(<<"y">>)) \o <<Comma, LitStr(<<"z">>)>>)}
LoopFragments == UNION {[1..n -> LoopTokens] : n \in 0..MaxTokens}
LoopArgs == {JoinCommas(elems) : elems \in ElementLists}
              \cup {<<LitStr(<<"x">>), Comma, Comma, LitStr(<<"z">>)>>,
                    <<LitStr(<<"x">>), Comma>>, <<LitInt(<<"1">>), LitInt(<<"2">>)>>}

\* process_eager is entered with a fragment.
RewriteBegin ==
  /\ loop.kind = "none"
  /\ \E fragment \in LoopFragments :
       loop' = [kind |-> "rewrite", input |-> fragment, stream |-> fragment, pos |-> 1,
                turns |-> 0, acc |-> Ok(<<>>), done |-> FALSE]
  /\ UNCHANGED <<eng, build, registry, blk, pc, idx, locals, exports, result, first, run, sel, direct, eager, entry, builder, artifact>>

\* One iteration of `while let Some(token) = tokens.next()`.
RewriteStep ==
  /\ loop.kind = "rewrite" /\ ~loop.done /\ loop.pos <= Len(loop.stream)
  /\ LET turn == EagerTurn(registry, SubSeq(loop.stream, loop.pos, Len(loop.stream))) IN
     \E e \in turn.out :
       loop' = [loop EXCEPT !.pos = loop.pos + turn.n, !.turns = loop.turns + 1,
                            !.acc = IF e.ok THEN Ok(loop.acc.val \o e.val) ELSE e,
                            !.done = ~e.ok]
  /\ UNCHANGED <<eng, build, registry, blk, pc, idx, locals, exports, result, first, run, sel, direct, eager, entry, builder, artifact>>

\* The iterator is exhausted: Ok(output).
RewriteEnd ==
  /\ loop.kind = "rewrite" /\ ~loop.done /\ loop.pos > Len(loop.stream)
  /\ loop' = [loop EXCEPT !.done = TRUE]
  /\ UNCHANGED <<eng, build, registry, blk, pc, idx, locals, exports, result, first, run, sel, direct, eager, entry, builder, artifact>>

\* evaluate_concat is entered with the arguments of a concat!: they are
\* rewritten by process_eager and the parser closure starts on the result.
ConcatBegin ==
  /\ loop.kind = "none"
  /\ \E args \in LoopArgs :
       \E r \in ProcessEager(registry, args) :
         loop' = [kind |-> "concat", input |-> args, stream |-> IF r.ok THEN r.val ELSE <<>>,
                  pos |-> 1, turns |-> 0, acc |-> IF r.ok THEN Ok(<<>>) ELSE r, done |-> ~r.ok]
  /\ UNCHANGED <<eng, build, registry, blk, pc, idx, locals, exports, result, first, run, sel, direct, eager, entry, builder, artifact>>

\* Mutant: a token tree that is skipped is not consumed.
ConcatStep_Stall ==
  /\ loop.kind = "concat" /\ ~loop.done /\ loop.pos <= Len(loop.stream)
  /\ LET turn == ConcatTurn(loop.stream, loop.pos) IN
     loop' = [loop EXCEPT !.pos = IF turn.part = <<>> THEN loop.pos ELSE turn.next,
                          !.turns = loop.turns + 1,
                          !.acc = IF turn.ok THEN Ok(loop.acc.val \o turn.part)
                                  ELSE Err("Parse", "UnexpectedEndOfInput"),
                          !.done = ~turn.ok]
  /\ UNCHANGED <<eng, build, registry, blk, pc, idx, locals, exports, result, first, run, sel, direct, eager, entry, builder, artifact>>

\* One iteration of `while !input.is_empty()`.
ConcatStep ==
  /\ loop.kind = "concat" /\ ~loop.done /\ loop.pos <= Len(loop.stream)
  /\ LET turn == ConcatTurn(loop.stream, loop.pos) IN
     loop' = [loop EXCEPT !.pos = turn.next, !.turns = loop.turns + 1,
                          !.acc = IF turn.ok THEN Ok(loop.acc.val \o turn.part)
                                  ELSE Err("Parse", "UnexpectedEndOfInput"),
                          !.done = ~turn.ok]
  /\ UNCHANGED <<eng, build, registry, blk, pc, idx, locals, exports, result, first, run, sel, direct, eager, entry, builder, artifact>>

\* The input is empty: the parts are joined into one string literal.
ConcatEnd ==
  /\ loop.kind = "concat" /\ ~loop.done /\ loop.pos > Len(loop.stream)
  /\ loop' = [loop EXCEPT !.acc = Ok(<<LitStr(loop.acc.val)>>), !.done = TRUE]
  /\ UNCHANGED <<eng, build, registry, blk, pc, idx, locals, exports, result, first, run, sel, direct, eager, entry, builder, artifact>>

NextLoops == \/ RewriteBegin \/ RewriteStep \/ RewriteEnd
             \/ ConcatBegin \/ ConcatStep \/ ConcatEnd
SpecLoops == InitEager /\ [][NextLoops]_vars

\* A fully-shaped invocation starts at position i of the stream.
ShapedAt(stream, i) ==
  /\ i + 2 <= Len(stream) /\ IsEvaluatableMacro(stream[i])
  /\ stream[i + 1] = Bang /\ stream[i + 2].t = "Group"

RECURSIVE HasInvocation(_)
HasInvocation(stream) ==
  \E i \in 1..Len(stream) :
    ShapedAt(stream, i) \/ (stream[i].t = "Group" /\ HasInvocation(stream[i].v))

\* C9 (as claimed): a fragment that holds no fully-shaped invocation at any
\* depth is returned token for token, in order, also when a `tomplate` or
\* `concat` identifier is followed by `!` and no group, or by no `!`.
C9_Claim == (eager.done /\ ~HasInvocation(eager.input)) => eager.out = Ok(eager.input)

RECURSIVE HasConcat(_)
HasConcat(stream) ==
  \E i \in 1..Len(stream) :
    stream[i] = Ident("concat") \/ (stream[i].t = "Group" /\ HasConcat(stream[i].v))

\* Direct resolution of the argument group of a tomplate! invocation.
DirectResolution(args) ==
  IF ParseTomplateInput(args).ok THEN ProcessTemplate(registry, ParseTomplateInput(args))
  ELSE {Err("Parse", ParseTomplateInput(args).err)}

\* Every fully-shaped invocation of the stream, at any depth outside the
\* argument groups, resolves to one string.
RECURSIVE AllResolve(_)
AllResolve(stream) ==
  \A i \in 1..Len(stream) :
    /\ ShapedAt(stream, i) =>
         (Cardinality(DirectResolution(stream[i + 2].v)) = 1
            /\ \A r \in DirectResolution(stream[i + 2].v) : r.ok)
    /\ (stream[i].t = "Group" /\ ~(i > 2 /\ ShapedAt(stream, i - 2))) => AllResolve(stream[i].v)

\* A string literal of the stream outside the argument groups of its
\* fully-shaped invocations.
RECURSIVE HasBareLiteral(_)
HasBareLiteral(stream) ==
  \E i \in 1..Len(stream) :
    \/ stream[i].t = "Str"
    \/ /\ stream[i].t = "Group" /\ ~(i > 2 /\ ShapedAt(stream, i - 2))
       /\ HasBareLiteral(stream[i].v)

\* What the rewriting of the stream has to hold as string literals and
\* groups: one literal with the direct resolution for each fully-shaped
\* tomplate! invocation, and each other group with its delimiter, rewritten
\* inside.
RECURSIVE Expected(_, _)
Expected(stream, i) ==
  IF i > Len(stream) THEN <<>>
  ELSE IF ShapedAt(stream, i)
       THEN <<LitStr((CHOOSE r \in DirectResolution(stream[i + 2].v) : TRUE).val)>>
              \o Expected(stream, i + 3)
  ELSE IF stream[i].t = "Group"
       THEN <<Group(stream[i].d, Expected(stream[i].v, 1))>> \o Expected(stream, i + 1)
  ELSE Expected(stream, i + 1)

\* The string literals and the groups of a stream, in order.
RECURSIVE Skeleton(_)
Skeleton(stream) ==
  IF stream = <<>> THEN <<>>
  ELSE (IF Head(stream).t = "Str" THEN <<Head(stream)>>
        ELSE IF Head(stream).t = "Group"
             THEN <<Group(Head(stream).d, Skeleton(Head(stream).v))>>
        ELSE <<>>) \o Skeleton(Tail(stream))

\* C10 (as claimed): in a fragment without concat and without string
\* literals of its own, whose invocations all resolve, the output holds one
\* string literal with the direct resolution in the place of every
\* fully-shaped tomplate!(...) invocation, at any group depth, and every
\* other group rewritten inside with its delimiter kept.
C10_Claim ==
  (eager.done /\ ~HasConcat(eager.input) /\ ~HasBareLiteral(eager.input)
     /\ AllResolve(eager.input)) =>
     (eager.out.ok /\ Skeleton(eager.out.val) = Expected(eager.input, 1))

\* The fragment is one concat!(...) invocation; its elements.
IsConcat(stream) == Len(stream) = 3 /\ stream[1] = Ident("concat") /\ ShapedAt(stream, 1)
ElementsOf(stream) == IF stream[3].v = <<>> THEN <<>> ELSE SplitCommas(stream[3].v)

IsLitElement(e) == Len(e) = 1 /\ IsLit(e[1])
IsInvElement(e) == Len(e) = 3 /\ e[1] = Ident("tomplate") /\ ShapedAt(e, 1)

\* The element is a literal, or an invocation with one, successful resolution.
GoodElement(e) ==
  \/ IsLitElement(e)
  \/ /\ IsInvElement(e)
     /\ Cardinality(DirectResolution(e[3].v)) = 1
     /\ \A r \in DirectResolution(e[3].v) : r.ok

ElementValue(e) ==
  IF IsLitElement(e) THEN TokText(e[1]) ELSE (CHOOSE r \in DirectResolution(e[3].v) : TRUE).val

RECURSIVE JoinValues(_)
JoinValues(elems) ==
  IF elems = <<>> THEN <<>> ELSE ElementValue(Head(elems)) \o JoinValues(Tail(elems))

ConcatDone == eager.done /\ IsConcat(eager.input)

\* C11 (as claimed): eager evaluation of concat!(e1, ..., en) whose elements
\* are all string, integer, float or boolean literals or tomplate!
\* invocations that resolve yields one string literal, the concatenation in
\* order and without separator of the elements' values, each literal
\* contributing its text and each invocation its resolved string.
C11_Claim ==
  (ConcatDone /\ \A i \in 1..Len(ElementsOf(eager.input)) : GoodElement(ElementsOf(eager.input)[i]))
    => eager.out = Ok(<<LitStr(JoinValues(ElementsOf(eager.input)))>>)

\* The element is neither a literal nor an invocation, so it is no literal
\* after the rewriting either.
NonLiteralElement(e) == ~IsLitElement(e) /\ ~IsInvElement(e)

\* C15 (as claimed): evaluate_concat accounts for every element of its
\* argument list: when an element is not a string, integer, float or
\* boolean literal the evaluation fails; the element is not dropped.
C15_Claim ==
  (ConcatDone /\ \E i \in 1..Len(ElementsOf(eager.input)) :
                   NonLiteralElement(ElementsOf(eager.input)[i]))
    => ~eager.out.ok

\* The text the simple engine has after its substitutions.
EngText == ReplaceAll(eng.template, eng.params, eng.ord)

\* The positions where a {name} span of s starts that lies in no other
\* span: no LB before it is still waiting for its RB.
OuterStarts(s) ==
  {p \in 1..Len(s) :
     /\ s[p] = LB
     /\ \E q \in (p + 2)..Len(s) : s[q] = RB /\ \A m \in (p + 1)..(q - 1) : s[m] # RB
     /\ \A o \in 1..(p - 1) : s[o] = LB => \E m \in (o + 1)..(p - 1) : s[m] = RB}

\* The name of the span starting at p: the text up to the next RB.
SpanNameAt(s, p) ==
  SubSeq(s, p + 1, (CHOOSE q \in (p + 1)..Len(s) :
                      s[q] = RB /\ \A m \in (p + 1)..(q - 1) : s[m] # RB) - 1)

\* The starts of the spans whose name is no key, and the k-th of them.
MissingStarts(s, keys) == {p \in OuterStarts(s) : SpanNameAt(s, p) \notin keys}
NthStart(starts, k) == CHOOSE p \in starts : Cardinality({o \in starts : o < p}) = k - 1

\* C12: the simple engine fails with the unsubstituted-variables error
\* exactly when the text after the substitutions holds a {name} span with a
\* non-empty name that is no key of params; the error lists the names of
\* those spans, in the order of the text, reading each span from its LB to the
\* next RB; a span whose name is a key is never listed; a failure carries no
\* rendered string and a success carries the text.
C12_Unsubstituted ==
  EngSimpleDone =>
    /\ ~eng.out.ok <=> (SpanNames(EngText) \ DOMAIN eng.params # {})
    /\ eng.out.ok => eng.out = Ok(EngText)
    /\ ~eng.out.ok =>
         /\ eng.out.err = "Unsubstituted" /\ eng.out.val = <<>>
         /\ Len(eng.out.arg) = Cardinality(MissingStarts(EngText, DOMAIN eng.params))
         /\ \A k \in 1..Len(eng.out.arg) :
              /\ eng.out.arg[k] \notin DOMAIN eng.params
              /\ eng.out.arg[k] =
                   SpanNameAt(EngText, NthStart(MissingStarts(EngText, DOMAIN eng.params), k))

\* C12 witness: {a} stays in the text because the value of a is {a}, {b} has
\* no value, and only b is listed.
C12_Witness ==
  /\ EngSimpleDone
  /\ eng.template = <<LB, "a", RB, "x", LB, "b", RB>>
  /\ eng.params = (<<"a">> :> <<LB, "a", RB>>)
  /\ EngText = <<LB, "a", RB, "x", LB, "b", RB>>
  /\ eng.out = Err("Unsubstituted", << <<"b">> >>)

\* C13: rendering with an engine name that is neither "simple", nor empty,
\* nor the name of an enabled optional engine fails with the
\* unknown-or-disabled-engine error carrying that name, for every pattern
\* and parameter map, and produces no string.
C13_UnknownEngine ==
  (eng.done /\ eng.engine \notin ({"simple", ""} \cup EnabledEngines)) =>
     /\ ~eng.out.ok /\ eng.out.err = "UnknownEngine" /\ eng.out.arg = eng.engine
     /\ eng.out.val = <<>>

\* C13 witness: the disabled engine handlebars on a pattern without
\* placeholder, which the simple engine would return as it is.
C13_Witness ==
  /\ eng.done /\ eng.engine = "handlebars" /\ eng.template = <<"x">> /\ eng.params = <<>>
  /\ eng.out = Err("UnknownEngine", "handlebars")

\* The value the finished block holds for its i-th statement.
StmtValue(i) ==
  IF blk[i].kind = "Let" THEN locals[IdentToString(blk[i].name)]
  ELSE exports[CHOOSE k \in 1..Len(exports) : exports[k].name = IdentToString(blk[i].name)].value

BlockFailed == pc = "done" /\ ~result.ok

\* C14: a composition block is all-or-nothing.  When validation fails the
\* result is that error and nothing was evaluated; when the resolution of a
\* statement, let or const, fails the result is that statement's error; a
\* failed block emits no const declaration, whatever was exported before
\* the failure; a block that succeeds emits one declaration per const and
\* every statement's value is a successful resolution of its invocation,
\* never a stand-in for a failed one.
C14_AllOrNothing ==
  pc = "done" =>
    /\ ~ValidateBlock(blk).ok => (result = ValidateBlock(blk) /\ exports = <<>> /\ locals = <<>>)
    /\ ~result.ok => result.val = <<>>
    /\ (~result.ok /\ ValidateBlock(blk).ok) =>
         /\ idx \in 1..Len(blk)
         /\ result \in ProcessTemplateCall(registry, blk[idx].value, locals)
    /\ result.ok =>
         /\ Len(result.val) = Cardinality({i \in 1..Len(blk) : blk[i].kind = "Const"})
         /\ \A i \in 1..Len(blk) :
              \E r \in ProcessTemplateCall(registry, blk[i].value, locals) :
                r.ok /\ r.val = StmtValue(i)

\* C14 witness: a const was resolved and exported, then a let that no const
\* uses fails; the block returns the error of the let.
C14_Witness ==
  /\ BlockFailed /\ Len(blk) = 2 /\ Len(exports) = 1
  /\ blk[1].kind = "Const" /\ blk[2].kind = "Let" /\ idx = 2
  /\ result.err = "Unsubstituted"

\* The same key is supplied more than once.
HasDupKey(ps) == \E i, j \in 1..Len(ps) : i < j /\ ps[i].key = ps[j].key

\* The parameters without those that a later one of the same key overwrites.
RECURSIVE LastOnly(_)
LastOnly(ps) ==
  IF ps = <<>> THEN <<>>
  ELSE (IF \E j \in 2..Len(ps) : ps[j].key = Head(ps).key THEN <<>> ELSE <<Head(ps)>>)
         \o LastOnly(Tail(ps))

\* What the value of one parameter resolves to in each path.
DirectParamOutcomes(p) ==
  IF p.val.tag = "Literal" THEN {Ok(p.val.s)} ELSE ExpandMacro(registry, p.val.call)
BlockParamOutcomes(p) == ResolveValue(registry, p.val, <<>>)

DirectInput == ParseTomplateInput(direct.args)
DupDirect == direct.done /\ DirectInput.ok /\ HasDupKey(DirectInput.params)
DupBlock == pc = "done" /\ Len(blk) = 1 /\ HasDupKey(blk[1].value.params)
BlockOutcome == IF result.ok THEN Ok(result.val[1].value) ELSE result

\* C16: when a key is supplied more than once the invocation does not fail
\* for it and renders with the value of the last occurrence, in the direct
\* path and in the block path: the outcome is that of the invocation with
\* the overwritten occurrences left out, or the error of one of the
\* parameter values, and a value that cannot be resolved fails the
\* invocation also when a later occurrence overwrites it.
C16_LastWins ==
  /\ DupDirect =>
       /\ direct.out \in
            ProcessTemplate(registry, [DirectInput EXCEPT !.params = LastOnly(DirectInput.params)])
              \cup UNION {{r \in DirectParamOutcomes(DirectInput.params[i]) : ~r.ok}
                            : i \in 1..Len(DirectInput.params)}
       /\ (\E i \in 1..Len(DirectInput.params) :
             \A r \in DirectParamOutcomes(DirectInput.params[i]) : ~r.ok) => ~direct.out.ok
  /\ DupBlock =>
       /\ BlockOutcome \in
            ProcessTemplateCall(registry, [blk[1].value EXCEPT !.params = LastOnly(blk[1].value.params)],
                                <<>>)
              \cup UNION {{r \in BlockParamOutcomes(blk[1].value.params[i]) : ~r.ok}
                            : i \in 1..Len(blk[1].value.params)}
       /\ (\E i \in 1..Len(blk[1].value.params) :
             \A r \in BlockParamOutcomes(blk[1].value.params[i]) : ~r.ok) => ~result.ok

\* C16 witness: a = "{b}" then a = "x" renders {a} as x in both paths.
C16_Witness ==
  /\ SameBlockDone
  /\ direct.args = S(P_a) \o Arg("a", S(P_b)) \o Arg("a", S(<<"x">>))
  /\ direct.out = Ok(<<"x">>) /\ result.ok /\ result.val[1].value = <<"x">>

\* C16 witness of the failing case: the overwritten first value of a does
\* not resolve and the invocation fails in both paths.
C16_WitnessError ==
  /\ SameBlockDone
  /\ direct.args = S(P_a) \o Arg("a", TInv(S(P_c))) \o Arg("a", S(<<"x">>))
  /\ ~direct.out.ok /\ ~result.ok

\* C17 (as claimed): the empty token sequence is not a composition block
\* and not a single invocation, so the tomplate entry point reports a parse
\* error for it and does not succeed with an empty output.
C17_Claim ==
  (entry.done /\ entry.input = <<>> /\ pc # "eval") =>
     (entry.form = "error" /\ direct.done /\ direct.out.err = "Parse")

\* ------------------------------------------------ SpecBuild: Builder::build
\* The template files a build script can discover.
FileT == (<<"t">> :> Template(<<"y">>, None))
FileU == (<<"u">> :> Template(P_a, Some("simple")))
FileNone == <<>>
BuildFiles == {FileTU, FileW, FileT, FileU, FileNone}
FileLists == UNION {[1..n -> BuildFiles] : n \in 0..MaxFiles}
BuildModes == {"Overwrite", "Append"}
DefaultEngines == {None, Some("Handlebars")}

\* The invocations expanded after the build script has run.
BuildArgs == {S(<<"t">>), S(<<"u">>) \o Arg("a", S(<<"x">>)), S(<<"w">>), S(P_a) \o Arg("a", S(<<"x">>)),
              S(P_b)}

InitBuild == /\ eng = EngIdle /\ ResolveIdle /\ EagerIdle /\ EntryIdle
             /\ BuilderIdle /\ LoopIdle /\ artifact = None

\* One run of the build script: Builder::new() ... .mode(m).build() on the
\* discovered files, over the OUT_DIR left by the runs before it.
BuilderBuild ==
  /\ pc = "idle" /\ builder.builds < MaxBuilds
  /\ \E files \in FileLists, default_engine \in DefaultEngines, mode \in BuildModes :
       \E amalgamated \in BuildArtifacts(files, default_engine) :
         /\ build' = BuildInput(files, default_engine)
         /\ artifact' = IF amalgamated.ok THEN Some(amalgamated.val) ELSE artifact
         /\ builder' = [mode |-> mode, builds |-> builder.builds + 1,
                        out |-> IF amalgamated.ok THEN Ok(<<>>) ELSE amalgamated,
                        before |-> artifact]
  /\ UNCHANGED <<eng, registry, blk, pc, idx, locals, exports, result, first, run, sel, direct,
                 eager, entry, loop>>

\* The first expansion of the crate that is compiled next: TEMPLATES is
\* initialised from the artifact and the invocation is processed.
LoadAndExpand ==
  /\ pc = "idle"
  /\ registry' = LoadTemplates(ReadArtifact(artifact))
  /\ \E args \in BuildArgs :
       LET input == ParseTomplateInput(args) IN
       \E out \in ProcessTemplate(registry', input) :
         direct' = [done |-> TRUE, args |-> args,
                    sel |-> SelectDirect(registry', input.source), out |-> out]
  /\ pc' = "direct"
  /\ UNCHANGED <<eng, build, blk, idx, locals, exports, result, first, run, sel, eager, entry,
                 builder, artifact, loop>>

NextBuild == BuilderBuild \/ LoadAndExpand
SpecBuild == InitBuild /\ [][NextBuild]_vars

Built == builder.builds >= 1

\* The names two of the discovered files both define.
SharedNames(files) ==
  UNION {DOMAIN files[x[1]] \cap DOMAIN files[x[2]]
           : x \in {y \in (1..Len(files)) \X (1..Len(files)) : y[1] < y[2]}}

\* The names an artifact defines, and the content the newly discovered
\* files amalgamate to.
NamesOf(content) == {e[1] : e \in content}
Discovered == BuildArtifacts(build.files, build.default_engine)
DiscoveredOk == {r \in Discovered : r.ok}

\* C18 (as claimed): with BuildMode::Append the build merges the newly
\* discovered templates with those of the artifact already in the output
\* directory, so the artifact holds both afterwards, and a name present in
\* both is a duplicate-template error; with BuildMode::Overwrite the
\* artifact is replaced by the newly discovered templates only.
C18_Claim ==
  (Built /\ builder.before # None /\ DiscoveredOk # {}) =>
     LET new == (CHOOSE r \in DiscoveredOk : TRUE).val
         old == builder.before[1]
     IN IF builder.mode = "Append"
        THEN IF NamesOf(new) \cap NamesOf(old) # {}
             THEN ~builder.out.ok /\ builder.out.err = "DuplicateTemplate"
             ELSE builder.out.ok /\ artifact = Some(old \cup new)
        ELSE builder.out.ok /\ artifact = Some(new)

\* C19: when two discovered files define the same template name,
\* amalgamate_templates fails with DuplicateTemplate carrying such a name,
\* in every order of the files and whether or not the definitions are the
\* same, and the build returns the error and leaves the artifact as it was,
\* absent if it was absent.
C19_Duplicate ==
  (Built /\ SharedNames(build.files) # {}) =>
     /\ \A r \in AmalgamateTemplates(build.files, build.default_engine) :
          ~r.ok /\ r.err = "DuplicateTemplate" /\ r.arg \in SharedNames(build.files)
     /\ builder.out \in AmalgamateTemplates(build.files, build.default_engine)
     /\ artifact = builder.before

\* C19 witness: a second build discovers u twice, once with t and once
\* alone, with the same definition; the artifact of the first build stays.
C19_Witness ==
  /\ builder.builds = 2 /\ build.files = <<FileU, FileTU>>
  /\ builder.out = Err("DuplicateTemplate", <<"u">>)
  /\ builder.before = Some(TomlSerialize(FileW)) /\ artifact = builder.before

C20_WitnessAbsent ==
  /\ builder.builds = 0 /\ artifact = None /\ direct.done
  /\ direct.args = S(<<"u">>) \o Arg("a", S(<<"x">>)) /\ direct.out = Ok(<<"u">>)

\* C21 (as claimed): when validate_block accepts a block, every Variable
\* lookup of the evaluation finds its binding in the scope, so the
\* evaluation never fails with an undefined-variable error; a let whose
\* invocation references its own name is rejected by the validation.
C21_Claim ==
  (pc \in {"eval", "done"} /\ ValidateBlock(blk).ok) => result.err # "UndefinedVariable"

\* Statement i references a name that a const of the block defines and that
\* is no let of statements 1..i.
ConstNames(b) == {NameOf(b[j]) : j \in {k \in 1..Len(b) : b[k].kind = "Const"}}
ConstRefAt(b, i) ==
  \E n \in VarRefs(b[i].value) : n \in ConstNames(b) /\ n \notin LetsIn(b, 1, i)
ConstRef(b) == \E i \in 1..Len(b) : ConstRefAt(b, i)

Offending(b, i) == DuplicateAt(b, i) \/ ~(VarRefs(b[i].value) \subseteq LetsIn(b, 1, i - 1))
FirstOffending(b) == CHOOSE i \in 1..Len(b) : Offending(b, i) /\ \A j \in 1..(i - 1) : ~Offending(b, j)

\* C23: the validation of the whole block comes before any evaluation.  A
\* block with a duplicate name or an undefined reference ends with that
\* scope error, the one of the earliest offending statement, and nothing is
\* rendered, also when an earlier statement would fail rendering; a block
\* without one that fails ends with the error of the earliest statement
\* whose evaluation fails, the statements before it evaluated.
C23_Claim ==
  (Started /\ pc = "done") =>
    /\ (\E i \in 1..Len(blk) : Offending(blk, i)) =>
         LET i == FirstOffending(blk) IN
         /\ NothingEvaluated /\ ~result.ok
         /\ DuplicateAt(blk, i) => result = Err("DuplicateDefinition", NameOf(blk[i]))
         /\ ~DuplicateAt(blk, i) =>
              /\ result.err = "UndefinedVariable"
              /\ result.arg \in VarRefs(blk[i].value) \ LetsIn(blk, 1, i - 1)
    /\ ((~\E i \in 1..Len(blk) : Offending(blk, i)) /\ ~result.ok) =>
         /\ idx \in 1..Len(blk) /\ Len(sel) = idx
         /\ result \in ProcessTemplateCall(registry, blk[idx].value, locals)
         /\ \A j \in 1..(idx - 1) :
              IF blk[j].kind = "Let" THEN NameOf(blk[j]) \in DOMAIN locals
              ELSE \E k \in 1..Len(exports) : exports[k].name = NameOf(blk[j])

\* C24: the entry point processes its input as a composition block exactly
\* when the input parses as one, and as a single invocation only when it
\* does not; the error of a block that parsed is final, the
\* single-invocation form is not tried; and no non-empty input parses under
\* both grammars, so an input the single-invocation grammar accepts is
\* processed as a single invocation whatever the order of the attempts.
C24_Dispatch ==
  entry.done =>
    LET block == ParseCompositionBlock(entry.input)
        d == ParseTomplateInput(entry.input)
    IN /\ entry.form = "block" <=> block.ok
       /\ entry.form = "block" =>
            /\ blk = block.val /\ direct = DirectIdle /\ pc \in {"eval", "done"}
            /\ ~ValidateBlock(blk).ok => (pc = "done" /\ result = ValidateBlock(blk))
       /\ entry.form # "block" =>
            /\ direct.done /\ direct.args = entry.input
            /\ entry.form = "direct" <=> d.ok
            /\ d.ok => direct.out \in ProcessTemplate(registry, d)
            /\ ~d.ok => direct.out = Err("Parse", d.err)
            /\ run = 0 => (blk = <<>> /\ result = Ok(<<>>))
       /\ entry.input # <<>> => ~(block.ok /\ d.ok)
       /\ d.ok => entry.form = "direct"

\* C24 witness: an input that parsed as a block failed in processing, and
\* the single-invocation form was not tried.
C24_Witness ==
  /\ entry.done /\ entry.form = "block" /\ entry.input # <<>>
  /\ pc = "done" /\ ~result.ok /\ direct = DirectIdle

\* C24 witness: an input that is no block was expanded as a single invocation.
C24_WitnessDirect ==
  /\ entry.done /\ entry.form = "direct" /\ ~ParseCompositionBlock(entry.input).ok
  /\ direct.out.ok /\ run = 0

\* C25: the output of process_eager holds no fully-shaped invocation, at
\* any group depth; so process_eager applied to its own successful output
\* returns that output, and nothing else.
C25_Claim ==
  (eager.done /\ eager.out.ok) =>
    /\ ~HasInvocation(eager.out.val)
    /\ ProcessEager(registry, eager.out.val) = {Ok(eager.out.val)}

\* The parameter a value has to become by its tokens: a literal of the four
\* kinds, a bare identifier, a tomplate!(...) call; nothing else.
Classified(value) ==
  IF Len(value) = 1 /\ value[1].t \in {"Str", "Int", "Float"} THEN Ok(Literal(value[1].v))
  ELSE IF value = <<Ident("true")>> THEN Ok(Literal(<<"t", "r", "u", "e">>))
  ELSE IF value = <<Ident("false")>> THEN Ok(Literal(<<"f", "a", "l", "s", "e">>))
  ELSE IF Len(value) = 1 /\ value[1].t = "Ident" THEN Ok(Variable(<<value[1].v>>))
  ELSE IF Len(value) = 3 /\ value[1] = Ident("tomplate") /\ value[2] = Bang
            /\ value[3].t = "Group" /\ ParseTemplateArgs(value[3].v).ok
       THEN Ok(Nested([source |-> ParseTemplateArgs(value[3].v).source,
                       params |-> ParseTemplateArgs(value[3].v).params]))
  ELSE Err("Parse", "Rejected")

\* C26: a parameter value of a block invocation that is a string, integer,
\* float or boolean literal becomes Literal with its text, a bare identifier
\* becomes Variable of that name, a tomplate!(...) call becomes Nested with
\* the call parsed by the same grammar; every other value makes the parse
\* fail, and no block with that parameter is processed.
C26_Claim ==
  \A value \in ParamValueTokens :
    (entry.done /\ entry.input = ParamInput(value)) =>
       IF Classified(value).ok
       THEN /\ entry.form = "block" /\ Len(blk) = 2
            /\ blk[2].value.params = <<Param(<<"a">>, Classified(value).val)>>
       ELSE entry.form = "error" /\ blk = <<>>

\* C27: rewriting terminates.  Every iteration of the loop of process_eager
\* and of the loop of evaluate_concat consumes at least one token and never
\* reads past the end of its stream, so a loop makes at most as many
\* iterations as its stream has tokens; the loops end with what
\* process_eager and evaluate_concat return, whose recursion is into the
\* groups and the nested invocations of the tokens they are given.
C27_Terminates ==
  loop.kind # "none" =>
    /\ loop.pos \in (loop.turns + 1)..(Len(loop.stream) + 1)
    /\ loop.turns <= Len(loop.stream)
    /\ (loop.done /\ loop.kind = "rewrite") => loop.acc \in ProcessEager(registry, loop.input)
    /\ (loop.done /\ loop.kind = "concat") => loop.acc \in EvaluateConcat(registry, loop.input)

\* C27 witness: the loop of evaluate_concat has ended after three
\* iterations, one of them on a token tree that is no literal.
C27_Witness ==
  /\ loop.kind = "concat" /\ loop.done /\ loop.acc.ok /\ loop.turns = 3
  /\ \E i \in 1..Len(loop.stream) : loop.stream[i].t \in {"Ident", "Group"} /\ loop.stream[i].v # "true"

\* C27 witness: the loop of process_eager has ended on a fragment with a
\* group and an invocation.
C27_WitnessRewrite ==
  /\ loop.kind = "rewrite" /\ loop.done /\ loop.acc.ok
  /\ Len(loop.stream) = 4 /\ loop.turns = 2 /\ HasInvocation(loop.stream)

C28_WitnessAgain ==
  /\ run = 2 /\ pc = "done" /\ result.ok /\ Len(exports) >= 1
  /\ \E i \in 1..Len(blk) : blk[i].value.source \in DOMAIN registry

\* Pass 2 of process_block has begun; the statements it has evaluated.
InPass2 == pc = "eval" \/ (pc = "done" /\ idx >= 1)
Evaluated == idx - 1
ConstsEvaluated == SelectSeq([j \in 1..Evaluated |-> j], LAMBDA j : blk[j].kind = "Const")

\* The scope holds the evaluated statements and nothing else: a local for
\* each let, an export for each const, in the order of the block, each with
\* a resolution of its invocation.
ScopeMatches ==
  /\ DOMAIN locals = {IdentToString(blk[j].name) : j \in {k \in 1..Evaluated : blk[k].kind = "Let"}}
  /\ \A j \in 1..Evaluated :
       blk[j].kind = "Let" =>
         \E r \in ProcessTemplateCall(registry, blk[j].value, locals) :
           r.ok /\ r.val = locals[IdentToString(blk[j].name)]
  /\ Len(exports) = Len(ConstsEvaluated)
  /\ \A k \in 1..Len(ConstsEvaluated) :
       LET st == blk[ConstsEvaluated[k]] IN
       /\ exports[k].name = IdentToString(st.name) /\ exports[k].attrs = st.attrs
       /\ \E r \in ProcessTemplateCall(registry, st.value, locals) :
            r.ok /\ r.val = exports[k].value

\* A step keeps every local and every export as it is.
ScopeKept ==
  /\ \A n \in DOMAIN locals : n \in DOMAIN locals' /\ locals'[n] = locals[n]
  /\ Len(exports') >= Len(exports) /\ SubSeq(exports', 1, Len(exports)) = exports

\* C29: at every point of pass 2 the keys of the locals are the names of the
\* lets evaluated so far and the exports are the consts evaluated so far,
\* in order; a step of pass 2 never overwrites or removes a local and never
\* changes an export already appended.
C29_Scope ==
  [][/\ InPass2' => ScopeMatches'
     /\ pc = "eval" => ScopeKept]_vars

\* C29 witness: pass 2 has evaluated a let and then a const, and goes on.
C29_Witness ==
  /\ pc = "eval" /\ idx = 3 /\ Len(blk) = 3
  /\ blk[1].kind = "Let" /\ blk[2].kind = "Const"
  /\ DOMAIN locals = {IdentToString(blk[1].name)} /\ Len(exports) = 1

\* The positions of the stream at which a turn of process_eager starts.
RECURSIVE TurnStarts(_, _)
TurnStarts(stream, i) ==
  IF i > Len(stream) THEN {}
  ELSE {i} \cup TurnStarts(stream, i + EagerTurn(registry, SubSeq(stream, i, Len(stream))).n)

\* The errors of the invocations process_eager evaluates in the stream: at
\* top level, inside groups, inside the arguments of a concat!.
RECURSIVE EvalErrors(_)
EvalErrors(stream) ==
  UNION {IF ShapedAt(stream, i)
         THEN {r \in EvaluateMacro(registry, stream[i], stream[i + 2]) : ~r.ok}
                \cup (IF stream[i].v = "concat" THEN EvalErrors(stream[i + 2].v) ELSE {})
         ELSE IF stream[i].t = "Group" THEN EvalErrors(stream[i].v)
         ELSE {}
           : i \in TurnStarts(stream, 1)}

\* An invocation process_eager evaluates in the stream fails whatever the
\* order of the engine.
RECURSIVE MustFail(_)
MustFail(stream) ==
  \E i \in TurnStarts(stream, 1) :
    IF ShapedAt(stream, i)
    THEN \/ \A r \in EvaluateMacro(registry, stream[i], stream[i + 2]) : ~r.ok
         \/ stream[i].v = "concat" /\ MustFail(stream[i + 2].v)
    ELSE stream[i].t = "Group" /\ MustFail(stream[i].v)

\* C30: when the evaluation of an invocation fails anywhere in the fragment,
\* at top level, in a nested group or in the arguments of a concat!, the
\* call of process_eager returns an error, the one of a failing invocation,
\* and no tokens: nothing rewritten before the failure is returned.
C30_ErrorPropagates ==
  eager.done =>
    /\ MustFail(eager.input) => ~eager.out.ok
    /\ ~eager.out.ok => (eager.out \in EvalErrors(eager.input) /\ eager.out.val = <<>>)

\* C30 witness: an invocation that resolves comes first, then a group that
\* holds a failing one; the error is all that is returned.
C30_Witness ==
  /\ eager.done /\ ~eager.out.ok /\ eager.out.val = <<>>
  /\ Len(eager.input) = 4 /\ ShapedAt(eager.input, 1)
  /\ \A r \in EvaluateMacro(registry, eager.input[1], eager.input[3]) : r.ok
  /\ eager.input[4].t = "Group" /\ MustFail(eager.input[4].v)

\* C30 witness: the failing invocation is an argument of a concat!, after
\* an argument that resolves.
C30_WitnessConcat ==
  /\ eager.done /\ ~eager.out.ok /\ IsConcat(eager.input)
  /\ Len(ElementsOf(eager.input)) >= 2
  /\ ~MustFail(ElementsOf(eager.input)[1]) /\ IsInvElement(ElementsOf(eager.input)[1])
  /\ MustFail(ElementsOf(eager.input)[2])

====
